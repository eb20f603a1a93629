-------------------------- MODULE AccountRegistry --------------------------
(***************************************************************************)
(* What the OPAQUE server promises about one client id: the first account  *)
(* registered for it stays, and a session token is issued once, only for   *)
(* a registered account, and does not come back once it has ended.         *)
(***************************************************************************)
EXTENDS Naturals

CONSTANTS
  Accounts,  \* account ids; 0 is none
  Tokens     \* session tokens

VARIABLES
  owner,   \* the account of the client id, or 0
  live,    \* tokens that are accepted
  issued   \* tokens issued so far

registry == <<owner, live, issued>>

RegistryInit ==
  /\ owner \in Accounts \cup {0}
  /\ live = {}
  /\ issued = {}

Register ==
  /\ owner = 0
  /\ owner' \in Accounts
  /\ UNCHANGED <<live, issued>>

(* A login, or a rotation in which another token ends. *)
IssueToken ==
  /\ owner # 0
  /\ \E t \in Tokens \ issued :
       /\ issued' = issued \cup {t}
       /\ \E old \in live \cup {t} : live' = (live \ {old}) \cup {t}
  /\ UNCHANGED owner

EndTokens ==
  /\ live' \subseteq live
  /\ UNCHANGED <<owner, issued>>

RegistryNext == Register \/ IssueToken \/ EndTokens

RegistrySpec == RegistryInit /\ [][RegistryNext]_registry
=============================================================================
