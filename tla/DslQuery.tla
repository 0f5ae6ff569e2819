------------------------------ MODULE DslQuery ------------------------------
(* A query of an administrator: src/dsl/parser.py reduces the conditions one *)
(* after the other, left to right and without precedence, into one filter,   *)
(* compiler.py checks the collection, and src/api/src/dsl/dsl.service.ts     *)
(* runs the filter on Mongo or on Postgres.                                  *)
(*                                                                           *)
(* A condition is a field and the values it accepts. A Mongo filter is a     *)
(* dict: one entry per field and perhaps a $or, of which only the documents  *)
(* it matches are kept. A COUNT, which has no limit, is left out.            *)
EXTENDS Integers, FiniteSets

CONSTANTS
  Row,             \* the documents of the collection, functions of Field
  Field,
  Scope,           \* the field that names the neighbourhood
  Column,          \* the one field a Postgres collection can be filtered on
  Value,
  Text,            \* the values that are strings
  EmptyText,       \* the empty string
  NoCondition,     \* a field the filter does not mention
  NoOr,            \* a filter without $or
  NoLimit,         \* a query without LIMIT
  MaxDslResults,   \* MAX_DSL_RESULTS
  MaxConditions    \* bound of the length of a query

ASSUME DslConstants ==
  /\ Scope \in Field /\ Column \in Field
  /\ Row \subseteq [Field -> Value]
  /\ EmptyText \in Text /\ Text \subseteq Value
  /\ MaxDslResults \in Nat \ {0}
  /\ NoLimit \notin Nat
  /\ \A rows \in SUBSET Row : NoOr # rows
  /\ NoCondition \notin [field : Field, kind : {"eq", "op"}, accepts : SUBSET Value]

Store == {"neighborhoods", "mongo", "postgres"}

\* kind "eq" is an equality, any other operator is "op".
Condition ==
  {[field |-> f, kind |-> "eq", accepts |-> {v}] : f \in Field, v \in Value}
    \cup [field : Field, kind : {"op"}, accepts : SUBSET Value]

VARIABLES
  filter,      \* the filter built so far
  meaning,     \* history: the rows the conditions read so far ask for
  length,      \* the conditions read so far
  repeated,    \* history: a conjunction named a field twice
  answer       \* the rows returned, and to which request
queryVars == <<filter, meaning, length, repeated>>
dslVars == <<queryVars, answer>>

NoAnswer == [outcome |-> "pending"]

\* The neighbourhoods a requester may read: an administrator all, a resident
\* their own, if they have one.
Everywhere == Value
Reader == {Everywhere, {}} \cup {{v} : v \in Value}
Limit == {NoLimit} \cup 0..MaxDslResults + 1

NoFilter == [or |-> NoOr, on |-> [f \in Field |-> NoCondition]]

Meets(row, c) == row[c.field] \in c.accepts

\* The rows that Mongo finds for a filter: every entry of the dict holds.
Matches(flt) ==
  {row \in Row : /\ flt.or # NoOr => row \in flt.or
                 /\ \A f \in Field : flt.on[f] # NoCondition
                                       => Meets(row, flt.on[f])}

\* p_condition_...: a dict with one entry.
Single(c) == [NoFilter EXCEPT !.on[c.field] = c]

\* {**left, **right}: an entry of the right replaces one of the left.
Merge(flt, c) == [flt EXCEPT !.on[c.field] = c]

DslInit ==
  /\ filter = NoFilter
  /\ meaning = Row
  /\ length = 0
  /\ repeated = FALSE
  /\ answer = NoAnswer

\* p_conditions_single
FirstCondition(c) ==
  /\ length = 0 /\ answer = NoAnswer
  /\ filter' = Single(c)
  /\ meaning' = {row \in Row : Meets(row, c)}
  /\ length' = 1
  /\ UNCHANGED <<repeated, answer>>

\* p_conditions_and
AndCondition(c) ==
  /\ length \in 1..MaxConditions - 1 /\ answer = NoAnswer
  /\ filter' = Merge(filter, c)
  /\ meaning' = {row \in meaning : Meets(row, c)}
  /\ repeated' = (repeated \/ filter.on[c.field] # NoCondition)
  /\ length' = length + 1
  /\ UNCHANGED answer

\* Mutant of OrFilter: the last condition joins the dict of the $or.
OrInside(flt, c) == [or |-> Matches(flt), on |-> Single(c).on]

\* {"$or": [left, right]}
OrFilter(flt, c) ==
  [NoFilter EXCEPT !.or = Matches(flt) \cup Matches(Single(c))]

\* p_conditions_or
OrCondition(c) ==
  /\ length \in 1..MaxConditions - 1 /\ answer = NoAnswer
  /\ filter' = OrFilter(filter, c)
  /\ meaning' = meaning \cup {row \in Row : Meets(row, c)}
  /\ length' = length + 1
  /\ UNCHANGED <<repeated, answer>>

\* clampLimit
Cap(limit) == IF limit = NoLimit \/ limit > MaxDslResults THEN MaxDslResults
              ELSE limit

\* The first rows of a result, in an order the query does not say.
Cut(rows, cap) ==
  IF Cardinality(rows) <= cap THEN {rows}
  ELSE {few \in SUBSET rows : Cardinality(few) = cap}

\* The rows that stand in the neighbourhoods of a requester.
Within(reader) == {row \in Row : row[Scope] \in reader}

\* withNeighborhoodFilter: the scope replaces what the query said of it.
Scoped(flt, reader) ==
  IF reader = Everywhere THEN flt
  ELSE Merge(flt, [field |-> Scope, kind |-> "eq", accepts |-> reader])

Respond(store, reader, limit, rows) ==
  /\ answer' = [outcome |-> "rows", rows |-> rows, store |-> store,
                reader |-> reader, limit |-> limit]
  /\ UNCHANGED queryVars

\* runMongo. LIMIT 0 reaches Mongo as limit(0), which is no limit.
RunMongo(store, reader, limit) ==
  LET rows == Matches(IF store = "neighborhoods" THEN filter
                      ELSE Scoped(filter, reader))
  IN  /\ store # "postgres" /\ answer = NoAnswer
      /\ \E few \in IF Cap(limit) = 0 THEN {rows} ELSE Cut(rows, Cap(limit)) :
           Respond(store, reader, limit, few)

\* extractEqualityFilter: no condition, or one equality with a string on the
\* column.
Asked == {f \in Field : filter.on[f] # NoCondition}
IsPlain == filter.or = NoOr /\ Asked = {}
IsSimple ==
  /\ filter.or = NoOr /\ Asked = {Column}
  /\ filter.on[Column].kind = "eq" /\ filter.on[Column].accepts \subseteq Text

\* runIncidents and runUsers: an empty string is falsy and filters nothing. A
\* requester without a neighbourhood gets no row, whatever the filter.
RunPostgres(reader, limit) ==
  LET rows == IF reader = {} \/ IsPlain \/ filter.on[Column].accepts = {EmptyText}
              THEN Within(reader)
              ELSE {row \in Within(reader) : Meets(row, filter.on[Column])}
  IN  /\ answer = NoAnswer
      /\ reader = {} \/ IsPlain \/ IsSimple
      /\ \E few \in Cut(rows, Cap(limit)) :
           Respond("postgres", reader, limit, few)

\* A filter that Postgres collections do not support is answered with 400.
RejectFilter ==
  /\ answer = NoAnswer
  /\ ~IsPlain /\ ~IsSimple
  /\ answer' = [outcome |-> "rejected"]
  /\ UNCHANGED queryVars

DslNext ==
  \/ \E c \in Condition :
       FirstCondition(c) \/ AndCondition(c) \/ OrCondition(c)
  \/ \E reader \in Reader, limit \in Limit :
       \/ \E store \in Store : RunMongo(store, reader, limit)
       \/ RunPostgres(reader, limit)
  \/ RejectFilter

DslSpec == DslInit /\ [][DslNext]_dslVars

-----------------------------------------------------------------------------
\* What the requester may see of a collection.
Visible(store, reader) ==
  IF store = "neighborhoods" THEN Row ELSE Within(reader)

\* The scope of the requester overrides what the query says of that field.
Overridden(store, reader) ==
  store = "mongo" /\ reader # Everywhere /\ filter.on[Scope] # NoCondition

\* The answer shows no row of another neighbourhood and misses no row that the
\* query asks for, unless the limit cuts it. It shows no row that the query
\* does not ask for either when no conjunction names a field twice (Python's
\* merge of the two dicts keeps the later condition only) and no value is the
\* empty string on Postgres. parser.py:37-44, dsl.service.ts:150-190.
NothingIsMissed ==
  answer.outcome = "rows" =>
    /\ answer.rows \subseteq Visible(answer.store, answer.reader)
    /\ \/ meaning \cap Visible(answer.store, answer.reader) \subseteq answer.rows
       \/ Cardinality(answer.rows) >= Cap(answer.limit)
    /\ \/ answer.rows \subseteq meaning
       \/ repeated
       \/ Overridden(answer.store, answer.reader)
       \/ answer.store = "postgres" /\ filter.on[Column].accepts = {EmptyText}
=============================================================================
