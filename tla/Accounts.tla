------------------------------ MODULE Accounts ------------------------------
(* Accounts in two databases that share no transaction: Postgres holds the   *)
(* account, Mongo a copy that is found by its e-mail address only.           *)
(* Registration (src/api/src/auth/auth.service.ts), the change of the e-mail *)
(* and the deletion of the account (src/api/src/users/me.controller.ts), and *)
(* the roles (src/api/src/users/users.controller.ts).                        *)
(*                                                                           *)
(* Every await is a step, any call may fail after its retries, a request may *)
(* stop for good where it is. The copies in Neo4j, whose failures are        *)
(* swallowed, are left out.                                                  *)
EXTENDS FiniteSets

CONSTANTS
  Account,
  Email,        \* the addresses people have
  NoEmail,      \* no row in Postgres
  NoOwner,      \* no document in Mongo
  NoRole,
  Call          \* each serves one request

VARIABLES
  email,        \* users.email in Postgres
  role,         \* users.role
  previousRole, \* users.previousRole
  copy,         \* whose secrets the Mongo document of an address holds
  answered,     \* the accounts whose registration was answered
  call,         \* what a request does next
  disturbed,    \* history: a change of e-mail lost its Mongo write, or was
                \* under way together with another request on an account
  held,         \* history: the role an account held when it was banned
  staleRole     \* history: a role was written over another request's

accountVars == <<email, role, previousRole, copy, answered, call, disturbed,
                 held, staleRole>>

rowVars == <<email, role, previousRole>>
roleHistory == <<held, staleRole>>

\* "moderator" stands for the administrator too.
GrantedRole == {"resident", "moderator", "banned"}
ASSUME RoleConstants == NoRole \notin GrantedRole \cup {"deleted"}

\* The address that a deleted account gets: deleted_<id>@anonymized.invalid.
Anonymized(u) == <<"deleted", u>>
Address == Email \cup {Anonymized(u) : u \in Account}
ASSUME AddressConstants ==
  /\ \A u \in Account : Anonymized(u) \notin Email
  /\ NoEmail \notin Address /\ NoOwner \notin Account

AccountsTypeOK ==
  /\ email \in [Account -> Address \cup {NoEmail}]
  /\ role \in [Account -> GrantedRole \cup {"deleted"}]
  /\ previousRole \in [Account -> GrantedRole \cup {"deleted", NoRole}]
  /\ copy \in [Address -> Account \cup {NoOwner}]
  /\ answered \subseteq Account
  /\ disturbed \in BOOLEAN /\ staleRole \in BOOLEAN

Taken(a) == \E u \in Account : email[u] = a

\* Some accounts were registered before, each with its document in Mongo.
AccountsInit ==
  /\ email \in [Account -> Email \cup {NoEmail}]
  /\ \A u, v \in Account : email[u] = email[v] => u = v \/ email[u] = NoEmail
  /\ role = [u \in Account |-> "resident"]
  /\ previousRole = [u \in Account |-> NoRole]
  /\ answered = {u \in Account : email[u] # NoEmail}
  /\ copy = [a \in Address |->
               IF Taken(a) THEN CHOOSE u \in Account : email[u] = a
               ELSE NoOwner]
  /\ call = [r \in Call |-> [pc |-> "new"]]
  /\ disturbed = FALSE
  /\ held = [u \in Account |-> NoRole]
  /\ staleRole = FALSE

InPc(r, pc) == call[r].pc = pc
Continue(r, pc) == call' = [call EXCEPT ![r].pc = pc]
Finish(r) == Continue(r, "done")

ChangePc == {"apply", "revoke", "propagate"}
AccountPc == ChangePc \cup {"consent", "undo", "erase", "flip"}

InFlight(pcs) == \E q \in Call : call[q].pc \in pcs

\* A request on the e-mail or the life of an account begins.
BeginCall(r, job) ==
  /\ InPc(r, "new")
  /\ call' = [call EXCEPT ![r] = job]
  /\ disturbed' = \/ disturbed
                  \/ InFlight(ChangePc)
                  \/ job.pc = "apply" /\ InFlight(AccountPc)

-----------------------------------------------------------------------------
\* register: a row with a new id is inserted unless the address is taken.
Register(r, u, a) ==
  /\ u \notin answered \cup {call[q].who : q \in {q \in Call : ~InPc(q, "new")}}
  /\ ~Taken(a)
  /\ email' = [email EXCEPT ![u] = a]
  /\ BeginCall(r, [pc |-> "consent", who |-> u, old |-> a])
  /\ UNCHANGED <<role, previousRole, copy, answered, roleHistory>>

\* recordConsent: an upsert by address, which leaves the secrets of a document
\* that is there.
UpsertCopy(r) ==
  copy' = [copy EXCEPT ![call[r].old] = IF @ = NoOwner THEN call[r].who ELSE @]

RecordConsent(r) ==
  /\ InPc(r, "consent")
  /\ UpsertCopy(r)
  /\ answered' = answered \cup {call[r].who}
  /\ Finish(r)
  /\ UNCHANGED <<rowVars, disturbed, roleHistory>>

\* The consent is not recorded, or its acknowledgement is lost.
LoseConsent(r) ==
  /\ InPc(r, "consent")
  /\ UpsertCopy(r) \/ UNCHANGED copy
  /\ Continue(r, "undo")
  /\ UNCHANGED <<rowVars, answered, disturbed, roleHistory>>

\* The insert is undone; if that fails too, only the error is reported.
UndoRegister(r) ==
  /\ InPc(r, "undo")
  /\ email' = [email EXCEPT ![call[r].who] = NoEmail]
  /\ Finish(r)
  /\ UNCHANGED <<role, previousRole, copy, answered, disturbed, roleHistory>>

-----------------------------------------------------------------------------
\* The requester is signed in: neither banned nor deleted, and has the code of
\* an authenticator that only an answered registration sets up.
SignedIn(u) ==
  u \in answered /\ email[u] # NoEmail /\ role[u] \notin {"banned", "deleted"}

\* changeEmail: the row is read, the new address is free or their own.
ReadEmail(r, u, a) ==
  /\ SignedIn(u)
  /\ Taken(a) => email[u] = a
  /\ BeginCall(r, [pc |-> "apply", who |-> u, old |-> email[u], new |-> a])
  /\ UNCHANGED <<rowVars, copy, answered, roleHistory>>

\* applyEmailChangeInPostgres, under the unique index on the address.
ApplyEmail(r) ==
  LET u == call[r].who
  IN  /\ InPc(r, "apply")
      /\ IF Taken(call[r].new) /\ email[u] # call[r].new
         THEN Finish(r) /\ UNCHANGED email
         ELSE Continue(r, "revoke") /\ email' = [email EXCEPT ![u] = call[r].new]
      /\ UNCHANGED <<role, previousRole, copy, answered, disturbed, roleHistory>>

\* revokeAccessToken, after which the Mongo copy is updated.
RevokeToken(r) ==
  /\ InPc(r, "revoke")
  /\ Continue(r, "propagate")
  /\ UNCHANGED <<rowVars, copy, answered, disturbed, roleHistory>>

\* Mutant of Readdressed: the document is not found by the address it has.
StaysPut(from, to) == copy

\* The document of one address gets another one.
Readdressed(from, to) ==
  IF copy[from] = NoOwner \/ from = to THEN copy
  ELSE [copy EXCEPT ![to] = copy[from], ![from] = NoOwner]

\* The unique index refuses to move a document onto an address in use.
Clashes(from, to) == from # to /\ copy[from] # NoOwner /\ copy[to] # NoOwner

\* propagateEmailToMongo, by the address that was read.
PropagateEmail(r) ==
  /\ InPc(r, "propagate")
  /\ ~Clashes(call[r].old, call[r].new)
  /\ copy' = Readdressed(call[r].old, call[r].new)
  /\ Finish(r)
  /\ UNCHANGED <<rowVars, answered, disturbed, roleHistory>>

\* The new address is in use in Mongo, the retries are exhausted or the
\* revocation failed: the change of the row stays, the copy is not updated.
LosePropagation(r) ==
  /\ call[r].pc \in {"revoke", "propagate"}
  /\ disturbed' = TRUE
  /\ Finish(r)
  /\ UNCHANGED <<rowVars, copy, answered, roleHistory>>

-----------------------------------------------------------------------------
\* deleteAccount: the row is read.
ReadToDelete(r, u) ==
  /\ SignedIn(u)
  /\ BeginCall(r, [pc |-> "erase", who |-> u, old |-> email[u]])
  /\ UNCHANGED <<rowVars, copy, answered, roleHistory>>

\* eraseMongoUser: the document of that address is anonymised, if there is one.
EraseCopy(r) ==
  LET u == call[r].who
  IN  /\ InPc(r, "erase")
      /\ ~Clashes(call[r].old, Anonymized(u))
      /\ copy' = Readdressed(call[r].old, Anonymized(u))
      /\ Continue(r, "flip")
      /\ UNCHANGED <<rowVars, answered, disturbed, roleHistory>>

\* The irreversible update of the row.
FlipRow(r) ==
  LET u == call[r].who
  IN  /\ InPc(r, "flip")
      /\ email' = [email EXCEPT ![u] = Anonymized(u)]
      /\ role' = [role EXCEPT ![u] = "deleted"]
      /\ Finish(r)
      /\ UNCHANGED <<previousRole, copy, answered, disturbed, roleHistory>>

\* A call of a request fails without an effect, or the process dies.
StopCall(r) ==
  /\ call[r].pc \in AccountPc \cup {"role"}
  /\ disturbed' = (disturbed \/ call[r].pc \in {"revoke", "propagate"})
  /\ Finish(r)
  /\ UNCHANGED <<rowVars, copy, answered, roleHistory>>

-----------------------------------------------------------------------------
\* updateRole, by an administrator: the row is read ...
ReadRole(r, u, wanted) ==
  /\ InPc(r, "new")
  /\ email[u] # NoEmail
  /\ call' = [call EXCEPT ![r] =
       [pc |-> "role", who |-> u, wanted |-> wanted, role |-> role[u],
        previous |-> previousRole[u]]]
  /\ UNCHANGED <<rowVars, copy, answered, disturbed, roleHistory>>

\* Mutant of KeptRole: a second ban is remembered like the first.
KeptRoleAlways(q) ==
  IF q.wanted = "banned" THEN q.role
  ELSE IF q.role = "banned" THEN NoRole
  ELSE q.previous

\* The role to remember.
KeptRole(q) ==
  IF q.wanted = "banned" /\ q.role # "banned" THEN q.role
  ELSE IF q.role = "banned" /\ q.wanted # "banned" THEN NoRole
  ELSE q.previous

\* The role to write: a reactivation restores the one before the ban.
NewRole(q) ==
  IF q.role = "banned" /\ q.wanted # "banned" /\ q.previous # NoRole
  THEN q.previous ELSE q.wanted

\* ... and written, whatever became of it meanwhile.
WriteRole(r) ==
  LET q == call[r]
      u == q.who
  IN  /\ InPc(r, "role")
      /\ role' = [role EXCEPT ![u] = NewRole(q)]
      /\ previousRole' = [previousRole EXCEPT ![u] = KeptRole(q)]
      /\ held' = IF NewRole(q) = "banned" /\ role[u] # "banned"
                 THEN [held EXCEPT ![u] = role[u]] ELSE held
      /\ staleRole' = (staleRole \/ role[u] # q.role
                                 \/ previousRole[u] # q.previous)
      /\ Finish(r)
      /\ UNCHANGED <<email, copy, answered, disturbed>>

AccountsNext ==
  \E r \in Call :
    \/ \E u \in Account, a \in Email : Register(r, u, a) \/ ReadEmail(r, u, a)
    \/ RecordConsent(r)
    \/ LoseConsent(r)
    \/ UndoRegister(r)
    \/ ApplyEmail(r)
    \/ RevokeToken(r)
    \/ PropagateEmail(r)
    \/ LosePropagation(r)
    \/ \E u \in Account : ReadToDelete(r, u)
    \/ EraseCopy(r)
    \/ FlipRow(r)
    \/ StopCall(r)
    \/ \E u \in Account, wanted \in GrantedRole : ReadRole(r, u, wanted)
    \/ WriteRole(r)

AccountsSpec == AccountsInit /\ [][AccountsNext]_accountVars

-----------------------------------------------------------------------------
LeavesNoCopy(u) == \A a \in Email : copy[a] # u

\* An account that Postgres shows as deleted has no document with its address
\* and secrets in Mongo, whatever fails or stops during registrations,
\* deletions and changes of role. The proviso is needed: a deletion finds the
\* document by the address in Postgres, and so misses the one that a change of
\* e-mail has not reached, or gave up. me.controller.ts:278-320, 378-396.
DeletionSurvivesFaults ==
  ~disturbed =>
    \A u \in Account : email[u] = Anonymized(u) => LeavesNoCopy(u)

\* A request to end a ban, whatever role it names, restores the role held
\* before the ban, however often the ban was repeated, unless two changes of
\* role overlapped. users.controller.ts:312-324.
UnbanRestoresRole ==
  \A u \in Account, wanted \in GrantedRole \ {"banned"} :
    role[u] = "banned" /\ ~staleRole =>
      NewRole([wanted |-> wanted, role |-> role[u],
               previous |-> previousRole[u]]) = held[u]
=============================================================================
