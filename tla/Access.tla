-------------------------------- MODULE Access --------------------------------
(***************************************************************************)
(* Who may do what in a workspace, when authentication is required: roles  *)
(* in the workspace and in its project, and the API credentials (keys)     *)
(* people make for their programs.  Every request is looked at at the      *)
(* boundary, which notes that its key was used, and again by its handler,  *)
(* in a session of its own; what the handler decides from is not locked.   *)
(*                                                                         *)
(* One workspace and one project.  The scopes of a key are closed          *)
(* downwards (admin, write, read), and stand as their highest.             *)
(***************************************************************************)
EXTENDS Naturals, Sequences

CONSTANTS
  People, ApiCallers,   \* users; concurrent requests
  Creator,           \* of the workspace and of its project
  MaxKeys,           \* bound on the keys made
  Grantable          \* the workspace roles that are given

ASSUME AccessAssumptions == Creator \in People /\ MaxKeys \in Nat /\ Grantable \subseteq 1 .. 4

VARIABLES
  wrole,      \* workspace_members: rank, 0 for none
  prole,      \* project_members
  keys,       \* api_credentials
  request,    \* caller -> where its request is
  owners,     \* history: who has been an owner of the workspace
  withdrawn,  \* history: keys whose revocation was confirmed
  late        \* history: keys let in after that

accessvars == <<wrole, prole, keys, request, owners, withdrawn, late>>

Viewer == 1
Member == 2
Admin == 3
Owner == 4
Coauthor == 3
ReadScope == 1
WriteScope == 2
AdminScope == 3

(* minimum_project_role, required_api_scope and the workspace minimum.     *)
Need ==
  [view  |-> [scope |-> ReadScope,  workspace |-> Viewer, project |-> 1],
   edit  |-> [scope |-> WriteScope, workspace |-> Viewer, project |-> Coauthor],
   admit |-> [scope |-> AdminScope, workspace |-> Viewer, project |-> Owner],
   grant |-> [scope |-> AdminScope, workspace |-> Owner,  project |-> 0],
   mint  |-> [scope |-> WriteScope, workspace |-> Viewer, project |-> 0],
   revoke |-> [scope |-> WriteScope, workspace |-> Viewer, project |-> 0]]

Ops == DOMAIN Need
Key == [user : People, scope : 1 .. 3, revoked : BOOLEAN]
AccessEffect ==
  [do : {"grant"}, to : People, rank : Grantable]
  \cup [do : {"admit"}, to : People, belongs : BOOLEAN]
  \cup [do : {"mint"}, to : People, scope : 1 .. 3]
  \cup [do : {"revoke"}, key : 1 .. MaxKeys]

NotHere == [at |-> "idle"]
AccessRequest ==
  {NotHere}
  \cup [at : {"boundary"}, op : Ops, by : People, key : 1 .. MaxKeys, scope : 1 .. 3]
  \cup [at : {"handler"}, op : Ops, by : People, scope : 1 .. 3, bot : BOOLEAN]
  \cup [at : {"commit"}, effect : AccessEffect]

TypeOKAccess ==
  /\ wrole \in [People -> 0 .. 4] /\ prole \in [People -> 0 .. 4]
  /\ keys \in Seq(Key) /\ Len(keys) <= MaxKeys
  /\ request \in [ApiCallers -> AccessRequest]
  /\ owners \subseteq People
  /\ withdrawn \subseteq DOMAIN keys /\ late \subseteq DOMAIN keys

(* The creator of a workspace and of its project owns them.                *)
AccessInit ==
  /\ wrole = [p \in People |-> IF p = Creator THEN Owner ELSE 0]
  /\ prole = wrole /\ owners = {Creator}
  /\ keys = <<>> /\ request = [c \in ApiCallers |-> NotHere]
  /\ withdrawn = {} /\ late = {}

-----------------------------------------------------------------------------
(* role_of: who administers the workspace owns its projects.               *)
ProjectRank(p) == IF wrole[p] >= Admin THEN Owner ELSE prole[p]

(* require_workspace_role and require_role.                                *)
Allowed(p, op) ==
  wrole[p] >= Need[op].workspace /\ (Need[op].project > 0 => ProjectRank(p) >= Need[op].project)

Moves(c, next) == request' = [request EXCEPT ![c] = next]

Handler(op, p, scope, bot) ==
  IF op \in {"view", "edit"} THEN NotHere   \* it changes nothing here
  ELSE [at |-> "handler", op |-> op, by |-> p, scope |-> scope, bot |-> bot]

(* The boundary, for a login session and for a key.                        *)
BoundarySession(c, p, op) ==
  /\ request[c] = NotHere /\ Allowed(p, op) /\ op \notin {"view", "edit"}
  /\ Moves(c, Handler(op, p, AdminScope, FALSE))
  /\ UNCHANGED <<wrole, prole, keys, owners, withdrawn, late>>

BoundaryKey(c, k, op) ==
  /\ request[c] = NotHere /\ k \in DOMAIN keys
  /\ ~keys[k].revoked /\ keys[k].scope >= Need[op].scope /\ Allowed(keys[k].user, op)
  /\ late' = late \cup ({k} \cap withdrawn)
  /\ Moves(c, [at |-> "boundary", op |-> op, by |-> keys[k].user, key |-> k, scope |-> keys[k].scope])
  /\ UNCHANGED <<wrole, prole, keys, owners, withdrawn>>

(* The row as it is after the commit of its use: last_used_at alone.       *)
Used_WholeRow(k) == [keys[k] EXCEPT !.revoked = FALSE]

Used(k) == keys[k]

CommitUse(c) ==
  LET now == request[c] IN
  /\ now.at = "boundary"
  /\ keys' = [keys EXCEPT ![now.key] = Used(now.key)]
  /\ Moves(c, Handler(now.op, now.by, now.scope, TRUE))
  /\ UNCHANGED <<wrole, prole, owners, withdrawn, late>>

(* The handler checks again, and reads what it decides from.               *)
MayMint(now, scope) ==
  /\ now.bot => now.scope = AdminScope
  /\ scope = AdminScope => wrole[now.by] >= Owner

Effects(now) ==
  CASE now.op = "grant" -> [do : {"grant"}, to : People, rank : Grantable]
    [] now.op = "admit" -> {[do |-> "admit", to |-> p, belongs |-> wrole[p] > 0] : p \in People}
    [] now.op = "mint" ->
         {[do |-> "mint", to |-> now.by, scope |-> s] : s \in {s \in 1 .. 3 : MayMint(now, s)}}
    [] now.op = "revoke" ->
         {[do |-> "revoke", key |-> k] :
            k \in {k \in DOMAIN keys : keys[k].user = now.by \/ wrole[now.by] >= Owner}}

HandlerDecides(c) ==
  LET now == request[c] IN
  /\ now.at = "handler"
  /\ now.op # "revoke" => Allowed(now.by, now.op)
  /\ \E effect \in Effects(now) : Moves(c, [at |-> "commit", effect |-> effect])
  /\ UNCHANGED <<wrole, prole, keys, owners, withdrawn, late>>

GiveRole(effect) ==
  /\ effect.do = "grant"
  /\ wrole' = [wrole EXCEPT ![effect.to] = effect.rank]
  /\ owners' = owners \cup {p \in {effect.to} : effect.rank = Owner}
  /\ UNCHANGED <<prole, keys, withdrawn>>

(* add_member: whoever did not belong to the workspace becomes a member.   *)
(* Of the project roles one is given, the coauthor's.                      *)
JoinProject(effect) ==
  /\ effect.do = "admit"
  /\ wrole' = IF effect.belongs THEN wrole ELSE [wrole EXCEPT ![effect.to] = Member]
  /\ prole' = [prole EXCEPT ![effect.to] = Coauthor]
  /\ UNCHANGED <<keys, owners, withdrawn>>

CreateKey(effect) ==
  /\ effect.do = "mint" /\ Len(keys) < MaxKeys
  /\ keys' = Append(keys, [user |-> effect.to, scope |-> effect.scope, revoked |-> FALSE])
  /\ UNCHANGED <<wrole, prole, owners, withdrawn>>

RevokeKey(effect) ==
  /\ effect.do = "revoke"
  /\ keys' = [keys EXCEPT ![effect.key].revoked = TRUE]
  /\ withdrawn' = withdrawn \cup {effect.key}
  /\ UNCHANGED <<wrole, prole, owners>>

Commit(c) ==
  LET now == request[c] IN
  /\ now.at = "commit"
  /\ \/ GiveRole(now.effect) \/ JoinProject(now.effect)
     \/ CreateKey(now.effect) \/ RevokeKey(now.effect)
  /\ Moves(c, NotHere) /\ UNCHANGED late

(* A denial, an error or a crash takes the transaction back.               *)
Fail(c) ==
  /\ request[c] # NotHere /\ Moves(c, NotHere)
  /\ UNCHANGED <<wrole, prole, keys, owners, withdrawn, late>>

AccessNext ==
  \E c \in ApiCallers :
    \/ \E p \in People, op \in Ops : BoundarySession(c, p, op)
    \/ \E k \in 1 .. MaxKeys, op \in Ops : BoundaryKey(c, k, op)
    \/ CommitUse(c) \/ HandlerDecides(c) \/ Commit(c) \/ Fail(c)

AccessSpec == AccessInit /\ [][AccessNext]_accessvars

-----------------------------------------------------------------------------
(* Whatever requests overlap with a revocation or with a change of roles,  *)
(* a key whose revocation was confirmed stays revoked and is not let in    *)
(* again; an admin key belongs to somebody who was an owner; and whoever   *)
(* is in the project is in its workspace ("Only a workspace owner may      *)
(* issue an admin credential").                                            *)
KeysHold ==
  /\ late = {} /\ \A k \in withdrawn : keys[k].revoked
  /\ \A k \in DOMAIN keys : keys[k].scope = AdminScope => keys[k].user \in owners
  /\ \A p \in People : prole[p] > 0 => wrole[p] > 0
=============================================================================
