---------------------------- MODULE Registration ----------------------------
(* Projects and their members: the handlers create, update_source and remove *)
(* of wiki-api/src/v1/authors/lifecycle.rs, and add_member and remove_member *)
(* of manage.rs with wiki-projects/src/access.rs.  Every handler is a series *)
(* of statements of their own; the tables' keys are all that ties them.      *)
EXTENDS Naturals, FiniteSets

CONSTANTS
    Users, Admins,
    Ids,            \* the ids that the metadata of repositories may declare
    Repos,          \* a repository with a path in it
    Branches,
    Platforms,      \* a project on a hosting platform
    Requests,       \* the requests under way
    Kinds,          \* the requests that are made
    MaxRows,        \* a bound on the rows inserted
    OneRemovalAtATime,  \* whether the removal of a project overlaps with no removal and no
                    \* invitation, nor the removal of a member with another one, and
                    \* admins leave a project alone until its registration has ended
    MayFail,        \* whether the insertion of a member may fail
    MayCrash        \* whether the process may die

ASSUME RegistrationAssumption ==
    /\ Admins \subseteq Users /\ MaxRows \in Nat
    /\ Kinds \subseteq {"create", "update", "remove", "add", "leave"}
    /\ {OneRemovalAtATime, MayFail, MayCrash} \subseteq BOOLEAN

Sources == [repo : Repos, branch : Branches]
Roles == {"owner", "member"}

VARIABLES
    \* Table project: the rows there are, and their columns.  born numbers the
    \* rows in the order of their insertion (for the properties).
    rows, source, platform, born, inserted,
    \* Table user_project.
    role,
    \* The requests, each with its local variables.
    req,
    \* The rows whose create died before it came to its end.
    orphaned

tables == <<rows, source, platform, born, inserted, role>>
vars == <<tables, req, orphaned>>

Free == [at |-> "free"]
Created == [at : {"validate", "check", "insert", "assign", "rollback"}, kind : {"create"},
            user : Users, source : Sources, id : Ids, platform : Platforms, born : 0 .. MaxRows]
Updates == [at : {"validate", "find", "update"}, kind : {"update"},
            user : Users, source : Sources, id : Ids, platform : Platforms, born : {0}]
Removes == [at : {"delete"}, kind : {"remove"}, id : Ids]
Adds == [at : {"duplicate", "join"}, kind : {"add"}, id : Ids, member : Users, role : Roles]
Leaves == [at : {"may_leave", "leave"}, kind : {"leave"}, id : Ids, member : Users]

TypeOK ==
    /\ rows \subseteq Ids
    /\ source \in [rows -> Sources] /\ platform \in [rows -> Platforms]
    /\ inserted \in 0 .. MaxRows /\ born \in [rows -> 1 .. inserted]
    /\ role \in [Ids -> [Users -> Roles \cup {"none"}]]
    /\ orphaned \subseteq 1 .. inserted
    /\ \A r \in Requests :
        req[r] = Free \/ req[r] \in Created \cup Updates \cup Removes \cup Adds \cup Leaves

Init ==
    /\ rows = {} /\ source = <<>> /\ platform = <<>> /\ born = <<>> /\ inserted = 0
    /\ role = [p \in Ids |-> [u \in Users |-> "none"]]
    /\ req = [r \in Requests |-> Free] /\ orphaned = {}
-----------------------------------------------------------------------------
Request(r, m) == req' = [req EXCEPT ![r] = m] /\ UNCHANGED orphaned
Goes(r, step) == Request(r, [req[r] EXCEPT !.at = step])
Answer(r) == Request(r, Free)

(* with: f with the value v at k;  without: f without k.                     *)
With(f, k, v) == [x \in DOMAIN f \cup {k} |-> IF x = k THEN v ELSE f[x]]
Without(f, k) == [x \in DOMAIN f \ {k} |-> f[x]]

IsOwner(u, p) == u \in Admins \/ role[p][u] = "owner"
Members(p) == {u \in Users : role[p][u] # "none"}
Owners(p) == {u \in Users : role[p][u] = "owner"}

(* UserProject: members and admins only.                                     *)
UserProject(u, p) == p \in rows /\ (u \in Admins \/ role[p][u] # "none")

(* A mutated form: the row's number outlives it.                             *)
DeleteRowNotNumber(p) ==
    /\ rows' = rows \ {p}
    /\ source' = Without(source, p) /\ platform' = Without(platform, p)
    /\ role' = [role EXCEPT ![p] = [u \in Users |-> "none"]]
    /\ UNCHANGED <<inserted, born>>

(* A row goes, and its members with it (ON DELETE CASCADE).                  *)
DeleteRow(p) ==
    /\ rows' = rows \ {p}
    /\ source' = Without(source, p) /\ platform' = Without(platform, p) /\ born' = Without(born, p)
    /\ role' = [role EXCEPT ![p] = [u \in Users |-> "none"]]
    /\ UNCHANGED inserted
-----------------------------------------------------------------------------
(* create.  exists_for_repo compares repository, path and branch.            *)
Create(r, u, s) ==
    /\ req[r] = Free /\ "create" \in Kinds
    /\ \A p \in rows : source[p] # s
    /\ \E p \in Ids, f \in Platforms : Request(r,
        [at |-> "validate", kind |-> "create", user |-> u, source |-> s, id |-> p, platform |-> f, born |-> 0])
    /\ UNCHANGED tables

(* update_source.                                                            *)
UpdateSource(r, u, s) ==
    /\ req[r] = Free /\ "update" \in Kinds
    /\ \E p \in Ids, f \in Platforms : Request(r,
        [at |-> "validate", kind |-> "update", user |-> u, source |-> s, id |-> p, platform |-> f, born |-> 0])
    /\ UNCHANGED tables

(* validate_project_data: the clone's metadata declares the id and platforms *)
(* (those that the request was made with above), or something is refused.    *)
Validate(r) ==
    /\ req[r].at = "validate"
    /\ \/ Goes(r, IF req[r].kind = "create" THEN "check" ELSE "find")
       \/ Answer(r)
    /\ UNCHANGED tables

(* exists_for_data.                                                          *)
CheckData(r) ==
    /\ req[r].at = "check"
    /\ IF req[r].id \in rows \/ \E p \in rows : platform[p] = req[r].platform
       THEN Answer(r) ELSE Goes(r, "insert")
    /\ UNCHANGED tables

(* The keys of the table: the id, and repository with path.                  *)
KeysFree(p, s) == \A q \in rows \ {p} : source[q].repo # s.repo

InsertProject(r) ==
    /\ req[r].at = "insert"
    /\ IF req[r].id \in rows \/ ~KeysFree(req[r].id, req[r].source)
       THEN Answer(r) /\ UNCHANGED tables
       ELSE /\ inserted < MaxRows
            /\ inserted' = inserted + 1
            /\ rows' = rows \cup {req[r].id}
            /\ source' = With(source, req[r].id, req[r].source)
            /\ platform' = With(platform, req[r].id, req[r].platform)
            /\ born' = With(born, req[r].id, inserted')
            /\ Request(r, [req[r] EXCEPT !.at = "assign", !.born = inserted'])
            /\ UNCHANGED role

(* assign_user_project; create undoes the project when it fails, which it    *)
(* does if the project has gone or the user is a member of it.               *)
AssignOwner(r) ==
    /\ req[r].at = "assign"
    /\ LET p == req[r].id u == req[r].user IN
       \/ /\ p \in rows /\ role[p][u] = "none"
          /\ role' = [role EXCEPT ![p][u] = "owner"]
          /\ Answer(r)
          /\ UNCHANGED <<rows, source, platform, born, inserted>>
       \/ /\ p \notin rows \/ role[p][u] # "none" \/ MayFail
          /\ Goes(r, "rollback") /\ UNCHANGED tables

(* A mutated form: the project stays when nobody could be assigned to it.    *)
RollbackNothing(r) ==
    /\ req[r].at = "rollback" /\ Answer(r)
    /\ UNCHANGED tables

Rollback(r) ==
    /\ req[r].at = "rollback" /\ Answer(r)
    /\ IF req[r].id \in rows THEN DeleteRow(req[r].id) ELSE UNCHANGED tables

(* update_source, after the validation.                                      *)
FindProject(r) ==
    /\ req[r].at = "find"
    /\ IF req[r].id \in rows THEN Goes(r, "update") ELSE Answer(r)
    /\ UNCHANGED tables

(* A mutated form: an upsert.                                                *)
UpsertRow(r) ==
    /\ req[r].at = "update" /\ Answer(r)
    /\ rows' = rows \cup {req[r].id}
    /\ source' = With(source, req[r].id, req[r].source)
    /\ platform' = With(platform, req[r].id, req[r].platform)
    /\ born' = IF req[r].id \in rows THEN born ELSE With(born, req[r].id, inserted)
    /\ UNCHANGED <<inserted, role>>

UpdateRow(r) ==
    /\ req[r].at = "update" /\ Answer(r)
    /\ IF req[r].id \in rows /\ KeysFree(req[r].id, req[r].source)
       THEN /\ source' = With(source, req[r].id, req[r].source)
            /\ platform' = With(platform, req[r].id, req[r].platform)
            /\ UNCHANGED <<rows, born, inserted, role>>
       ELSE UNCHANGED tables
-----------------------------------------------------------------------------
(* What create has inserted and not yet assigned to its user, or undone.     *)
Unassigned(p) == \E r \in Requests : req[r].at \in {"assign", "rollback"} /\ req[r].id = p

(* remove, for an owner or an admin.                                         *)
Remove(r, u, p) ==
    /\ req[r] = Free /\ "remove" \in Kinds
    /\ UserProject(u, p) /\ IsOwner(u, p)
    /\ OneRemovalAtATime => /\ ~Unassigned(p)
                            /\ \A q \in Requests : req[q] \notin Removes \cup Adds \cup Leaves
    /\ Request(r, [at |-> "delete", kind |-> "remove", id |-> p])
    /\ UNCHANGED tables

DeleteProject(r) ==
    /\ req[r].at = "delete" /\ Answer(r)
    /\ IF req[r].id \in rows THEN DeleteRow(req[r].id) ELSE UNCHANGED tables
-----------------------------------------------------------------------------
(* add_project_member, by an owner or an admin.                              *)
AddMember(r, u, p, v, o) ==
    /\ req[r] = Free /\ "add" \in Kinds
    /\ UserProject(u, p) /\ IsOwner(u, p)
    /\ OneRemovalAtATime => ~Unassigned(p) /\ \A q \in Requests : req[q] \notin Removes
    /\ Request(r, [at |-> "duplicate", kind |-> "add", id |-> p, member |-> v, role |-> o])
    /\ UNCHANGED tables

CheckDuplicate(r) ==
    /\ req[r].at = "duplicate"
    /\ IF role[req[r].id][req[r].member] # "none" THEN Answer(r) ELSE Goes(r, "join")
    /\ UNCHANGED tables

(* A mutated form: the later insertion replaces the membership.              *)
JoinReplacing(r) ==
    /\ req[r].at = "join" /\ Answer(r)
    /\ IF req[r].id \in rows
       THEN role' = [role EXCEPT ![req[r].id][req[r].member] = req[r].role]
       ELSE UNCHANGED role
    /\ UNCHANGED <<rows, source, platform, born, inserted>>

(* The insertion; the table's keys refuse it where the checks were too early.*)
Join(r) ==
    /\ req[r].at = "join" /\ Answer(r)
    /\ IF req[r].id \in rows /\ role[req[r].id][req[r].member] = "none"
       THEN role' = [role EXCEPT ![req[r].id][req[r].member] = req[r].role]
       ELSE UNCHANGED role
    /\ UNCHANGED <<rows, source, platform, born, inserted>>

(* remove_project_member: a member leaves, or an owner or an admin removes   *)
(* one.                                                                      *)
RemoveMember(r, u, p, v) ==
    /\ req[r] = Free /\ "leave" \in Kinds
    /\ UserProject(u, p) /\ (u = v \/ IsOwner(u, p))
    /\ OneRemovalAtATime => /\ ~Unassigned(p)
                            /\ \A q \in Requests : req[q] \notin Removes \cup Leaves
    /\ Request(r, [at |-> "may_leave", kind |-> "leave", id |-> p, member |-> v])
    /\ UNCHANGED tables

(* A mutated form: any other member will do, not only an owner.              *)
CanLeaveToMembers(r) ==
    /\ req[r].at = "may_leave"
    /\ LET p == req[r].id v == req[r].member IN
       IF v \in Members(p) /\ (v \in Owners(p) => Members(p) # {v})
       THEN Goes(r, "leave") ELSE Answer(r)
    /\ UNCHANGED tables

(* can_user_leave_project.                                                   *)
CanLeave(r) ==
    /\ req[r].at = "may_leave"
    /\ LET p == req[r].id v == req[r].member IN
       IF v \in Members(p) /\ (v \in Owners(p) => Owners(p) # {v})
       THEN Goes(r, "leave") ELSE Answer(r)
    /\ UNCHANGED tables

Leave(r) ==
    /\ req[r].at = "leave" /\ Answer(r)
    /\ role' = [role EXCEPT ![req[r].id][req[r].member] = "none"]
    /\ UNCHANGED <<rows, source, platform, born, inserted>>

(* The process dies.                                                         *)
Crash ==
    /\ MayCrash /\ \E r \in Requests : req[r] # Free
    /\ req' = [r \in Requests |-> Free]
    /\ orphaned' = orphaned \cup {req[r].born : r \in {r \in Requests : req[r].at \in {"assign", "rollback"}}}
    /\ UNCHANGED tables
-----------------------------------------------------------------------------
Next ==
    \/ \E r \in Requests :
        \/ \E u \in Users, s \in Sources : Create(r, u, s) \/ UpdateSource(r, u, s)
        \/ Validate(r) \/ CheckData(r) \/ InsertProject(r) \/ AssignOwner(r) \/ Rollback(r)
        \/ FindProject(r) \/ UpdateRow(r)
        \/ \E u \in Users, p \in Ids :
            \/ Remove(r, u, p)
            \/ \E v \in Users : RemoveMember(r, u, p, v) \/ \E o \in Roles : AddMember(r, u, p, v, o)
        \/ DeleteProject(r) \/ CheckDuplicate(r) \/ Join(r) \/ CanLeave(r) \/ Leave(r)
    \/ Crash

Spec == Init /\ [][Next]_vars
-----------------------------------------------------------------------------
(* The single owner of a project cannot be removed (the error single_owner,  *)
(* access.rs:137): a project that has owners keeps one for as long as it     *)
(* exists.                                                                   *)
OwnerRemains ==
    [][\A p \in rows \cap rows' : Owners(p) # {} => Owners(p)' # {}]_vars

(* create assigns and undoes the row that it has inserted, never one that    *)
(* somebody else has registered under the same id meanwhile, and leaves      *)
(* nothing behind: a project without members is one that create has yet to   *)
(* assign or undo, or one whose create died with the process.                *)
CreateFinishesItsOwn ==
    /\ \A r \in Requests : req[r].at \in {"assign", "rollback"} =>
           req[r].id \in rows /\ born[req[r].id] = req[r].born
    /\ \A p \in rows : Members(p) = {} => Unassigned(p) \/ born[p] \in orphaned

(* A member's role never changes while the membership lasts: not by a second *)
(* invitation, nor by a registration.                                        *)
RoleIsKept ==
    [][\A p \in Ids, u \in Users :
        role[p][u] # "none" /\ role'[p][u] # role[p][u] => role'[p][u] = "none"]_vars
=============================================================================
