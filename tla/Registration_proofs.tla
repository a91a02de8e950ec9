------------------------ MODULE Registration_proofs ------------------------
(* Theorems about Registration, for any users, admins, ids, sources and      *)
(* requests.                                                                 *)
EXTENDS Registration, TLAPS

Messages == {Free} \cup Created \cup Updates \cup Removes \cup Adds \cup Leaves
Managing == Removes \cup Adds \cup Leaves
Pending(r) == req[r].at \in {"assign", "rollback"}

(* The number of a row that create has inserted is one that was given out.   *)
BornInserted == \A r \in Requests : Pending(r) => req[r].born \in 1 .. inserted

TypeInv == TypeOK /\ req \in [Requests -> Messages] /\ BornInserted

(* create finds the row that it inserted, and no other create has that row.  *)
OwnRow ==
    /\ \A r \in Requests : Pending(r) => req[r].id \in rows /\ born[req[r].id] = req[r].born
    /\ \A q, r \in Requests : q # r /\ Pending(q) /\ Pending(r) => req[q].id # req[r].id

(* A project without an owner is one that create has yet to assign or undo,  *)
(* or one whose create died.                                                 *)
Led == \A p \in rows : Owners(p) = {} => Unassigned(p) \/ born[p] \in orphaned

(* What is managed is registered.                                            *)
Managed == \A r \in Requests : req[r] \in Managing => req[r].id \in rows /\ ~Unassigned(req[r].id)

(* Whoever is on the way out is a member, and not the last owner.            *)
LeavesOthers ==
    \A r \in Requests : req[r].at = "leave" =>
        req[r].member \in Members(req[r].id) /\ Owners(req[r].id) # {req[r].member}

(* What OneRemovalAtATime says of the requests under way.                    *)
Serial ==
    \A q, r \in Requests : q # r =>
        /\ req[r] \in Removes => req[q] \notin Managing
        /\ req[r] \in Leaves => req[q] \notin Leaves

IInv == /\ TypeInv
        /\ OwnRow
        /\ Led
        /\ Managed
        /\ LeavesOthers
        /\ Serial
-----------------------------------------------------------------------------
(* Messages.                                                                 *)

(* The step of a request tells what is asked.                                *)
LEMMA Shapes ==
  ASSUME NEW m \in Messages
  PROVE  /\ m.at \in {"check", "insert", "assign", "rollback"} => m \in Created
         /\ m.at = "validate" => m \in Created \cup Updates
         /\ m.at \in {"find", "update"} => m \in Updates
         /\ m.at = "delete" <=> m \in Removes
         /\ m.at \in {"duplicate", "join"} <=> m \in Adds
         /\ m.at \in {"may_leave", "leave"} <=> m \in Leaves
  BY DEF Messages, Free, Created, Updates, Removes, Adds, Leaves

LEMMA AdvanceCreated ==
  ASSUME NEW m \in Created, NEW s \in {"validate", "check", "insert", "assign", "rollback"}
  PROVE  LET n == [m EXCEPT !.at = s] IN
         n \in Created /\ n.at = s /\ n.id = m.id /\ n.born = m.born
  BY DEF Created

LEMMA AdvanceUpdates ==
  ASSUME NEW m \in Updates, NEW s \in {"validate", "find", "update"}
  PROVE  LET n == [m EXCEPT !.at = s] IN n \in Updates /\ n.at = s
  BY DEF Updates

LEMMA AdvanceAdds ==
  ASSUME NEW m \in Adds, NEW s \in {"duplicate", "join"}
  PROVE  LET n == [m EXCEPT !.at = s] IN n \in Adds /\ n.at = s /\ n.id = m.id
  BY DEF Adds

LEMMA AdvanceLeaves ==
  ASSUME NEW m \in Leaves, NEW s \in {"may_leave", "leave"}
  PROVE  LET n == [m EXCEPT !.at = s] IN
         n \in Leaves /\ n.at = s /\ n.id = m.id /\ n.member = m.member
  BY DEF Leaves

-----------------------------------------------------------------------------
(* Types.                                                                    *)
TablesOK ==
    /\ rows \subseteq Ids
    /\ source \in [rows -> Sources] /\ platform \in [rows -> Platforms]
    /\ inserted \in 0 .. MaxRows /\ born \in [rows -> 1 .. inserted]
    /\ role \in [Ids -> [Users -> Roles \cup {"none"}]]

LEMMA RoleTyped ==
  ASSUME NEW f \in [Ids -> [Users -> Roles \cup {"none"}]], NEW p \in Ids, NEW u \in Users,
         NEW o \in Roles \cup {"none"}
  PROVE  [f EXCEPT ![p][u] = o] \in [Ids -> [Users -> Roles \cup {"none"}]]
  OBVIOUS

LEMMA TypesOfMessages ==
  TypeInv <=> TablesOK /\ orphaned \subseteq 1 .. inserted /\ req \in [Requests -> Messages] /\ BornInserted
  BY DEF TypeInv, TypeOK, TablesOK, Messages

(* A request answers or goes on, and no number is taken back.                *)
LEMMA RequestTyped ==
  ASSUME TypeInv, TablesOK', inserted' \in Nat, inserted <= inserted',
         NEW r \in Requests, NEW m \in Messages, Request(r, m),
         m.at \in {"assign", "rollback"} => m.born \in 1 .. inserted'
  PROVE  TypeInv'
  <1> USE RegistrationAssumption
  <1>1. inserted \in Nat
    BY TypesOfMessages DEF TablesOK
  <1>2. orphaned' \subseteq 1 .. inserted'
    BY <1>1, TypesOfMessages DEF Request
  <1>3. req' \in [Requests -> Messages] /\ req'[r] = m /\ \A q \in Requests \ {r} : req'[q] = req[q]
    BY TypesOfMessages DEF Request
  <1>4. BornInserted'
    <2> SUFFICES ASSUME NEW q \in Requests, Pending(q)' PROVE req'[q].born \in 1 .. inserted'
      BY DEF BornInserted
    <2>1. CASE q = r
      BY <1>3, <2>1 DEF Pending
    <2>2. CASE q # r
      BY <1>1, <1>3, <2>2, TypesOfMessages DEF Pending, BornInserted
    <2> QED BY <2>1, <2>2
  <1> QED BY <1>2, <1>3, <1>4, TypesOfMessages DEF TypeInv, TypeOK, TablesOK, Messages

(* ... when the tables stay as they are.                                     *)
LEMMA QuietTyped ==
  ASSUME TypeInv, UNCHANGED tables, NEW r \in Requests, NEW m \in Messages, Request(r, m),
         m.at \in {"assign", "rollback"} => m.born \in 1 .. inserted
  PROVE  TypeInv'
  <1>1. TablesOK' /\ inserted' = inserted /\ inserted \in Nat
    BY TypesOfMessages, RegistrationAssumption DEF TablesOK, tables
  <1> QED BY <1>1, RequestTyped

LEMMA DeleteRowTyped ==
  ASSUME TablesOK, NEW p \in rows, DeleteRow(p)
  PROVE  TablesOK' /\ inserted' = inserted
  BY DEF TablesOK, DeleteRow, Without
-----------------------------------------------------------------------------
(* Steps that begin a request or change no row.                              *)
LEMMA BeginTyped ==
  ASSUME TypeInv, NEW r \in Requests,
         \/ \E u \in Users, s \in Sources : Create(r, u, s) \/ UpdateSource(r, u, s)
         \/ \E u \in Users, p \in Ids : Remove(r, u, p)
         \/ \E u, v \in Users, p \in Ids : RemoveMember(r, u, p, v)
         \/ \E u, v \in Users, p \in Ids, o \in Roles : AddMember(r, u, p, v, o)
  PROVE  TypeInv'
  <1> USE RegistrationAssumption
  <1>0. inserted \in Nat /\ MaxRows \in Nat /\ 0 \in 0 .. MaxRows
    BY TypesOfMessages DEF TablesOK
  <1>1. ASSUME NEW u \in Users, NEW s \in Sources, Create(r, u, s) PROVE TypeInv'
    <2>1. PICK p \in Ids, f \in Platforms : Request(r, [at |-> "validate", kind |-> "create", user |-> u,
                                                source |-> s, id |-> p, platform |-> f, born |-> 0])
      BY <1>1 DEF Create
    <2> DEFINE m == [at |-> "validate", kind |-> "create", user |-> u,
                     source |-> s, id |-> p, platform |-> f, born |-> 0]
    <2>2. m \in Messages /\ m.at = "validate"
      BY <1>0 DEF Messages, Created
    <2>3. UNCHANGED tables
      BY <1>1 DEF Create
    <2> HIDE DEF m
    <2>4. Request(r, m)
      BY <2>1 DEF m
    <2> QED BY <2>2, <2>3, <2>4, QuietTyped
  <1>2. ASSUME NEW u \in Users, NEW s \in Sources, UpdateSource(r, u, s) PROVE TypeInv'
    <2>1. PICK p \in Ids, f \in Platforms : Request(r, [at |-> "validate", kind |-> "update", user |-> u,
                                                source |-> s, id |-> p, platform |-> f, born |-> 0])
      BY <1>2 DEF UpdateSource
    <2> DEFINE m == [at |-> "validate", kind |-> "update", user |-> u,
                     source |-> s, id |-> p, platform |-> f, born |-> 0]
    <2>2. m \in Messages /\ m.at = "validate"
      BY DEF Messages, Updates
    <2>3. UNCHANGED tables
      BY <1>2 DEF UpdateSource
    <2> HIDE DEF m
    <2>4. Request(r, m)
      BY <2>1 DEF m
    <2> QED BY <2>2, <2>3, <2>4, QuietTyped
  <1>3. ASSUME NEW u \in Users, NEW p \in Ids, Remove(r, u, p) PROVE TypeInv'
    <2> DEFINE m == [at |-> "delete", kind |-> "remove", id |-> p]
    <2>1. m \in Messages /\ m.at = "delete"
      BY DEF Messages, Removes
    <2>2. UNCHANGED tables /\ Request(r, m)
      BY <1>3 DEF Remove
    <2> HIDE DEF m
    <2> QED BY <2>1, <2>2, QuietTyped
  <1>4. ASSUME NEW u \in Users, NEW v \in Users, NEW p \in Ids, RemoveMember(r, u, p, v) PROVE TypeInv'
    <2> DEFINE m == [at |-> "may_leave", kind |-> "leave", id |-> p, member |-> v]
    <2>1. m \in Messages /\ m.at = "may_leave"
      BY DEF Messages, Leaves
    <2>2. UNCHANGED tables /\ Request(r, m)
      BY <1>4 DEF RemoveMember
    <2> HIDE DEF m
    <2> QED BY <2>1, <2>2, QuietTyped
  <1>5. ASSUME NEW u \in Users, NEW v \in Users, NEW p \in Ids, NEW o \in Roles, AddMember(r, u, p, v, o)
        PROVE  TypeInv'
    <2> DEFINE m == [at |-> "duplicate", kind |-> "add", id |-> p, member |-> v, role |-> o]
    <2>1. m \in Messages /\ m.at = "duplicate"
      BY DEF Messages, Adds
    <2>2. UNCHANGED tables /\ Request(r, m)
      BY <1>5 DEF AddMember
    <2> HIDE DEF m
    <2> QED BY <2>1, <2>2, QuietTyped
  <1> QED BY <1>1, <1>2, <1>3, <1>4, <1>5

LEMMA FreeTyped == Free \in Messages /\ Free.at = "free"
  BY DEF Messages, Free

LEMMA StepOnTyped ==
  ASSUME TypeInv, NEW r \in Requests,
         Validate(r) \/ CheckData(r) \/ FindProject(r) \/ CheckDuplicate(r) \/ CanLeave(r)
  PROVE  TypeInv'
  <1> DEFINE n(s) == [req[r] EXCEPT !.at = s]
  <1>1. req[r] \in Messages
    BY DEF TypeInv
  <1>2. UNCHANGED tables
    BY DEF Validate, CheckData, FindProject, CheckDuplicate, CanLeave
  <1>3. req[r] \in Created => n("check") \in Created /\ n("insert") \in Created
                           /\ n("check").at = "check" /\ n("insert").at = "insert"
    BY AdvanceCreated
  <1>4. req[r] \in Updates => n("find") \in Updates /\ n("update") \in Updates
                           /\ n("find").at = "find" /\ n("update").at = "update"
    BY AdvanceUpdates
  <1>5. req[r] \in Adds => n("join") \in Adds /\ n("join").at = "join"
    BY AdvanceAdds
  <1>6. req[r] \in Leaves => n("leave") \in Leaves /\ n("leave").at = "leave"
    BY AdvanceLeaves
  <1>7. /\ req[r] \in Created => req[r].kind = "create"
        /\ req[r] \in Updates => req[r].kind = "update"
    BY DEF Created, Updates
  <1> HIDE DEF n
  <1>8. \/ Request(r, Free)
        \/ req[r] \in Created /\ (Request(r, n("check")) \/ Request(r, n("insert")))
        \/ req[r] \in Updates /\ (Request(r, n("find")) \/ Request(r, n("update")))
        \/ req[r] \in Adds /\ Request(r, n("join"))
        \/ req[r] \in Leaves /\ Request(r, n("leave"))
    BY <1>1, <1>7, Shapes DEF Validate, CheckData, FindProject, CheckDuplicate, CanLeave, Goes, Answer, n
  <1>9. \E m \in Messages : Request(r, m) /\ m.at \notin {"assign", "rollback"}
    BY <1>3, <1>4, <1>5, <1>6, <1>8, FreeTyped DEF Messages
  <1> QED BY <1>2, <1>9, QuietTyped
-----------------------------------------------------------------------------
(* Steps that change the tables.                                             *)
LEMMA RowsTyped ==
  ASSUME TypeInv, NEW r \in Requests,
         InsertProject(r) \/ AssignOwner(r) \/ Rollback(r) \/ UpdateRow(r) \/ DeleteProject(r) \/ Join(r) \/ Leave(r)
  PROVE  TypeInv'
  <1> USE RegistrationAssumption
  <1> DEFINE n(s) == [req[r] EXCEPT !.at = s]
  <1>0. TablesOK /\ inserted \in Nat /\ req[r] \in Messages /\ (Pending(r) => req[r].born \in 1 .. inserted)
    BY TypesOfMessages DEF TablesOK, BornInserted
  <1>1. ASSUME TablesOK', inserted' = inserted, Answer(r) PROVE TypeInv'
    BY <1>0, <1>1, FreeTyped, RequestTyped DEF Answer
  <1>2. ASSUME UNCHANGED tables, Answer(r) PROVE TypeInv'
    BY <1>0, <1>1, <1>2 DEF TablesOK, tables
  <1>3. CASE InsertProject(r)
    <2>1. req[r] \in Created
      BY <1>0, <1>3, Shapes DEF InsertProject
    <2>2. req[r].id \in Ids /\ req[r].source \in Sources /\ req[r].platform \in Platforms
      BY <2>1 DEF Created
    <2>3. CASE req[r].id \in rows \/ ~KeysFree(req[r].id, req[r].source)
      BY <1>2, <1>3, <2>3 DEF InsertProject
    <2>4. CASE ~(req[r].id \in rows \/ ~KeysFree(req[r].id, req[r].source))
      <3> DEFINE m == [req[r] EXCEPT !.at = "assign", !.born = inserted']
      <3>1. inserted' = inserted + 1 /\ inserted' \in 0 .. MaxRows /\ rows' = rows \cup {req[r].id}
        BY <1>0, <1>3, <2>4 DEF InsertProject
      <3>2. source' \in [rows' -> Sources] /\ platform' \in [rows' -> Platforms]
        BY <1>0, <1>3, <2>2, <2>4 DEF InsertProject, With, TablesOK
      <3>3. born' \in [rows' -> 1 .. inserted']
        BY <1>0, <1>3, <2>4, <3>1 DEF InsertProject, With, TablesOK
      <3>4. TablesOK'
        BY <1>0, <1>3, <2>2, <2>4, <3>1, <3>2, <3>3 DEF InsertProject, TablesOK
      <3>5. m \in Messages /\ m.born \in 1 .. inserted'
        <4>1. inserted \in Nat /\ inserted' = inserted + 1
          BY <1>0, <3>1
        <4>2. inserted' \in 1 .. inserted'
          BY <4>1
        <4>3. inserted' \in 0 .. MaxRows
          BY <3>1
        <4>4. m \in Created /\ m.born = inserted'
          BY <2>1, <4>3 DEF Created
        <4> HIDE DEF m
        <4> QED BY <4>2, <4>4 DEF Messages
      <3>6. Request(r, m)
        BY <1>3, <2>4 DEF InsertProject
      <3> HIDE DEF m
      <3> QED BY <1>0, <3>1, <3>4, <3>5, <3>6, RequestTyped
    <2> QED BY <2>3, <2>4
  <1>4. CASE AssignOwner(r)
    <2>1. req[r] \in Created /\ req[r].id \in Ids /\ req[r].user \in Users
      BY <1>0, <1>4, Shapes DEF AssignOwner, Created
    <2>2. CASE UNCHANGED tables /\ Goes(r, "rollback")
      <3>1. n("rollback") \in Messages /\ n("rollback").born = req[r].born
        BY <2>1, AdvanceCreated DEF Messages
      <3>2. Request(r, n("rollback")) /\ Pending(r)
        BY <1>4, <2>2 DEF Goes, AssignOwner, Pending
      <3> HIDE DEF n
      <3> QED BY <1>0, <2>2, <3>1, <3>2, QuietTyped
    <2>3. CASE /\ role' = [role EXCEPT ![req[r].id][req[r].user] = "owner"]
               /\ Answer(r) /\ UNCHANGED <<rows, source, platform, born, inserted>>
      <3>1. role' \in [Ids -> [Users -> Roles \cup {"none"}]]
        BY <1>0, <2>1, <2>3, RoleTyped DEF TablesOK, Roles
      <3>2. TablesOK'
        BY <1>0, <2>3, <3>1 DEF TablesOK
      <3> QED BY <1>1, <2>3, <3>2
    <2> QED BY <1>4, <2>2, <2>3 DEF AssignOwner
  <1>5. CASE Rollback(r) \/ DeleteProject(r)
    <2>1. Answer(r) /\ (UNCHANGED tables \/ (req[r].id \in rows /\ DeleteRow(req[r].id)))
      BY <1>5 DEF Rollback, DeleteProject
    <2> QED BY <1>0, <1>1, <1>2, <2>1, DeleteRowTyped
  <1>6. CASE UpdateRow(r)
    <2>1. req[r].source \in Sources /\ req[r].platform \in Platforms
      BY <1>0, <1>6, Shapes DEF UpdateRow, Updates
    <2>2. TablesOK' /\ inserted' = inserted
      <3>1. CASE UNCHANGED tables
        BY <1>0, <3>1 DEF TablesOK, tables
      <3>2. CASE ~UNCHANGED tables
        <4>1. req[r].id \in rows /\ UNCHANGED <<rows, born, inserted, role>>
          BY <1>6, <3>2 DEF UpdateRow
        <4>2. /\ source' = With(source, req[r].id, req[r].source)
              /\ platform' = With(platform, req[r].id, req[r].platform)
          BY <1>6, <3>2 DEF UpdateRow
        <4>3. source' \in [rows -> Sources] /\ platform' \in [rows -> Platforms]
          BY <1>0, <2>1, <4>1, <4>2 DEF With, TablesOK
        <4> QED BY <1>0, <4>1, <4>3 DEF TablesOK
      <3> QED BY <3>1, <3>2
    <2> QED BY <1>1, <1>6, <2>2 DEF UpdateRow
  <1>7. CASE Join(r)
    <2>1. req[r].id \in Ids /\ req[r].member \in Users /\ req[r].role \in Roles
      BY <1>0, <1>7, Shapes DEF Join, Adds
    <2>2. role' \in [Ids -> [Users -> Roles \cup {"none"}]]
      <3>1. role' = role \/ role' = [role EXCEPT ![req[r].id][req[r].member] = req[r].role]
        BY <1>7 DEF Join
      <3>2. role \in [Ids -> [Users -> Roles \cup {"none"}]]
        BY <1>0 DEF TablesOK
      <3>3. [role EXCEPT ![req[r].id][req[r].member] = req[r].role] \in [Ids -> [Users -> Roles \cup {"none"}]]
        BY <2>1, <3>2, RoleTyped
      <3> QED BY <3>1, <3>2, <3>3
    <2> QED BY <1>0, <1>1, <1>7, <2>2 DEF Join, TablesOK
  <1>8. CASE Leave(r)
    <2>1. req[r].id \in Ids /\ req[r].member \in Users
      BY <1>0, <1>8, Shapes DEF Leave, Leaves
    <2>2. role' \in [Ids -> [Users -> Roles \cup {"none"}]]
      <3>1. role' = [role EXCEPT ![req[r].id][req[r].member] = "none"]
        BY <1>8 DEF Leave
      <3>2. role \in [Ids -> [Users -> Roles \cup {"none"}]]
        BY <1>0 DEF TablesOK
      <3> QED BY <2>1, <3>1, <3>2, RoleTyped
    <2> QED BY <1>0, <1>1, <1>8, <2>2 DEF Leave, TablesOK
  <1> QED BY <1>3, <1>4, <1>5, <1>6, <1>7, <1>8

LEMMA CrashTyped == ASSUME TypeInv, Crash PROVE TypeInv'
  <1>1. TablesOK' /\ inserted' = inserted
    BY TypesOfMessages DEF Crash, tables, TablesOK
  <1>2. req' \in [Requests -> Messages] /\ \A r \in Requests : req'[r].at = "free"
    BY FreeTyped DEF Crash
  <1>3. BornInserted'
    BY <1>2 DEF BornInserted, Pending
  <1>4. orphaned' \subseteq 1 .. inserted'
    BY <1>1, TypesOfMessages DEF Crash, BornInserted, Pending
  <1> QED BY <1>1, <1>2, <1>3, <1>4, TypesOfMessages DEF TypeInv, TypeOK, TablesOK, Messages

LEMMA TypeStep == TypeInv /\ [Next]_vars => TypeInv'
  <1> SUFFICES ASSUME TypeInv, Next \/ UNCHANGED vars PROVE TypeInv'
    OBVIOUS
  <1>1. CASE UNCHANGED vars
    BY <1>1 DEF vars, tables, TypeInv, TypeOK, BornInserted, Pending
  <1>2. CASE Next
    BY <1>2, BeginTyped, StepOnTyped, RowsTyped, CrashTyped DEF Next
  <1> QED BY <1>1, <1>2

(* The tables and the requests always hold values of their types.            *)
THEOREM TypeCorrect == Spec => []TypeOK
  <1>1. Init => TypeInv
    BY RegistrationAssumption, FreeTyped
    DEF Init, TypeInv, TypeOK, BornInserted, Pending, Messages
  <1>2. TypeInv => TypeOK
    BY DEF TypeInv
  <1> QED BY <1>1, <1>2, TypeStep, PTL DEF Spec
-----------------------------------------------------------------------------
(* Owners: steps that leave rows and members alone.                          *)

(* What the step of one request leaves of the others.                        *)
LEMMA OnlyOne ==
  ASSUME TypeInv, NEW r \in Requests, NEW m \in Messages, Request(r, m)
  PROVE  /\ req'[r] = m /\ \A q \in Requests : q # r => req'[q] = req[q]
         /\ orphaned' = orphaned
  BY DEF TypeInv, Request

(* How the requests relate to each other after the message m of r.           *)
Fits(r, m) ==
    \A q \in Requests : q # r =>
        /\ m \in Removes => req[q] \notin Managing
        /\ m \in Adds => req[q] \notin Removes
        /\ m \in Leaves => req[q] \notin Removes \cup Leaves

LEMMA SerialKept ==
  ASSUME TypeInv, Serial, NEW r \in Requests, NEW m \in Messages, Request(r, m), Fits(r, m)
  PROVE  Serial'
  <1>1. SUFFICES ASSUME NEW q \in Requests, NEW s \in Requests, q # s
                 PROVE  /\ req'[s] \in Removes => req'[q] \notin Managing
                        /\ req'[s] \in Leaves => req'[q] \notin Leaves
    BY DEF Serial
  <1>2. CASE s = r
    BY <1>1, <1>2, OnlyOne DEF Fits
  <1>3. CASE q = r
    BY <1>1, <1>3, OnlyOne DEF Fits, Managing
  <1>4. CASE s # r /\ q # r
    BY <1>1, <1>4, OnlyOne DEF Serial
  <1> QED BY <1>2, <1>3, <1>4

LEMMA QuietStep ==
  ASSUME IInv, TypeInv', UNCHANGED <<rows, born, role>>,
         NEW r \in Requests, NEW m \in Messages, Request(r, m), Fits(r, m),
         Pending(r) <=> m.at \in {"assign", "rollback"},
         Pending(r) => m.id = req[r].id /\ m.born = req[r].born,
         m \in Managing => m.id \in rows /\ ~Unassigned(m.id),
         m.at = "leave" => m.member \in Members(m.id) /\ Owners(m.id) # {m.member}
  PROVE  IInv'
  <1> USE OnlyOne DEF IInv
  <1>1. \A q \in Requests : /\ Pending(q)' <=> Pending(q)
                            /\ Pending(q) => req'[q].id = req[q].id /\ req'[q].born = req[q].born
    BY DEF Pending
  <1>2. \A p : Unassigned(p)' <=> Unassigned(p)
    BY <1>1 DEF Unassigned, Pending
  <1>3. \A p : Owners(p)' = Owners(p) /\ Members(p)' = Members(p)
    BY DEF Owners, Members
  <1>4. OwnRow'
    BY <1>1 DEF OwnRow
  <1>5. Led'
    BY <1>2, <1>3 DEF Led
  <1>6. Managed'
    BY <1>2 DEF Managed
  <1>7. LeavesOthers'
    BY <1>3 DEF LeavesOthers
  <1>8. Serial'
    BY SerialKept
  <1> QED BY <1>4, <1>5, <1>6, <1>7, <1>8

(* A new request: whom it may overlap with.                                  *)
LEMMA BeginStep ==
  ASSUME IInv, TypeInv', OneRemovalAtATime, NEW r \in Requests,
         \/ \E u \in Users, s \in Sources : Create(r, u, s) \/ UpdateSource(r, u, s)
         \/ \E u \in Users, p \in Ids : Remove(r, u, p)
         \/ \E u, v \in Users, p \in Ids : RemoveMember(r, u, p, v)
         \/ \E u, v \in Users, p \in Ids, o \in Roles : AddMember(r, u, p, v, o)
  PROVE  IInv'
  <1> DEFINE begins(m) == /\ m \in Messages /\ Request(r, m)
                          /\ m.at \in {"validate", "delete", "duplicate", "may_leave"}
                          /\ Fits(r, m)
                          /\ m \in Managing => m.id \in rows /\ ~Unassigned(m.id)
  <1>1. UNCHANGED <<rows, born, role>> /\ req[r] = Free /\ ~Pending(r)
    <2>1. UNCHANGED tables /\ req[r] = Free
      BY DEF Create, UpdateSource, Remove, RemoveMember, AddMember
    <2> QED BY <2>1 DEF tables, Free, Pending
  <1>2. ASSUME NEW m, begins(m) PROVE IInv'
    BY <1>1, <1>2, QuietStep
  <1> HIDE DEF begins
  <1>3. ASSUME NEW u \in Users, NEW s \in Sources, Create(r, u, s) \/ UpdateSource(r, u, s) PROVE IInv'
    <2>1. PICK k \in {"create", "update"}, p \in Ids, f \in Platforms :
              Request(r, [at |-> "validate", kind |-> k, user |-> u, source |-> s, id |-> p, platform |-> f, born |-> 0])
      BY <1>3 DEF Create, UpdateSource
    <2> DEFINE m == [at |-> "validate", kind |-> k, user |-> u, source |-> s, id |-> p, platform |-> f, born |-> 0]
    <2>2. m \in Created \cup Updates /\ m.at = "validate"
      BY RegistrationAssumption DEF Created, Updates
    <2>3. Request(r, m)
      BY <2>1
    <2> HIDE DEF m
    <2>4. m \in Messages /\ m \notin Managing
      BY <2>2, Shapes DEF Messages, Managing
    <2> QED BY <1>2, <2>2, <2>3, <2>4 DEF begins, Fits, Managing
  <1>4. ASSUME NEW u \in Users, NEW p \in Ids, Remove(r, u, p) PROVE IInv'
    <2> DEFINE m == [at |-> "delete", kind |-> "remove", id |-> p]
    <2>1. m \in Removes /\ m.at = "delete" /\ m.id = p
      BY DEF Removes
    <2>2. Request(r, m)
      BY <1>4 DEF Remove
    <2> HIDE DEF m
    <2>3. m \in Messages /\ m \notin Adds \cup Leaves
      BY <2>1, Shapes DEF Messages
    <2>4. Fits(r, m) /\ p \in rows /\ ~Unassigned(p)
      BY <1>4, <2>3 DEF Remove, Fits, Managing, UserProject
    <2> QED BY <1>2, <2>1, <2>2, <2>3, <2>4 DEF begins
  <1>5. ASSUME NEW u \in Users, NEW v \in Users, NEW p \in Ids, RemoveMember(r, u, p, v) PROVE IInv'
    <2> DEFINE m == [at |-> "may_leave", kind |-> "leave", id |-> p, member |-> v]
    <2>1. m \in Leaves /\ m.at = "may_leave" /\ m.id = p
      BY DEF Leaves
    <2>2. Request(r, m)
      BY <1>5 DEF RemoveMember
    <2> HIDE DEF m
    <2>3. m \in Messages /\ m \notin Adds \cup Removes
      BY <2>1, Shapes DEF Messages
    <2>4. Fits(r, m) /\ p \in rows /\ ~Unassigned(p)
      BY <1>5, <2>3 DEF RemoveMember, Fits, UserProject
    <2> QED BY <1>2, <2>1, <2>2, <2>3, <2>4 DEF begins
  <1>6. ASSUME NEW u \in Users, NEW v \in Users, NEW p \in Ids, NEW o \in Roles, AddMember(r, u, p, v, o)
        PROVE  IInv'
    <2> DEFINE m == [at |-> "duplicate", kind |-> "add", id |-> p, member |-> v, role |-> o]
    <2>1. m \in Adds /\ m.at = "duplicate" /\ m.id = p
      BY DEF Adds
    <2>2. Request(r, m)
      BY <1>6 DEF AddMember
    <2> HIDE DEF m
    <2>3. m \in Messages /\ m \notin Leaves \cup Removes
      BY <2>1, Shapes DEF Messages
    <2>4. Fits(r, m) /\ p \in rows /\ ~Unassigned(p)
      BY <1>6, <2>3 DEF AddMember, Fits, UserProject
    <2> QED BY <1>2, <2>1, <2>2, <2>3, <2>4 DEF begins
  <1> QED BY <1>3, <1>4, <1>5, <1>6

(* A request that goes on, or is answered, without a change to a row.        *)
LEMMA FitsOn ==
  ASSUME IInv, NEW r \in Requests, NEW m \in Messages,
         \/ m \notin Managing
         \/ m \in Adds /\ req[r] \in Adds
         \/ m \in Leaves /\ req[r] \in Leaves
  PROVE  Fits(r, m)
  <1>1. m \in Adds => m \notin Removes \cup Leaves
    BY Shapes
  <1>2. m \in Leaves => m \notin Removes \cup Adds
    BY Shapes
  <1> QED BY <1>1, <1>2 DEF Fits, Managing, IInv, Serial

LEMMA AnswerStep ==
  ASSUME IInv, TypeInv', UNCHANGED <<rows, born, role>>, NEW r \in Requests, Answer(r), ~Pending(r)
  PROVE  IInv'
  <1>1. Free \in Messages /\ Free.at = "free" /\ Free \notin Managing
    BY FreeTyped, Shapes DEF Managing
  <1> QED BY <1>1, FitsOn, QuietStep DEF Answer

LEMMA StepOn ==
  ASSUME IInv, TypeInv', NEW r \in Requests,
         Validate(r) \/ CheckData(r) \/ FindProject(r) \/ CheckDuplicate(r) \/ CanLeave(r) \/ UpdateRow(r)
  PROVE  IInv'
  <1> DEFINE n(s) == [req[r] EXCEPT !.at = s]
  <1>1. req[r] \in Messages
    BY DEF IInv, TypeInv
  <1>2. UNCHANGED <<rows, born, role>> /\ ~Pending(r)
    BY DEF Validate, CheckData, FindProject, CheckDuplicate, CanLeave, UpdateRow, tables, Pending
  <1>3. CASE Answer(r)
    BY <1>2, <1>3, AnswerStep
  <1>4. CASE Validate(r) \/ CheckData(r) \/ FindProject(r)
    <2>1. ASSUME NEW s \in {"check", "insert", "find", "update"}, Goes(r, s), n(s) \in Created \cup Updates, n(s).at = s
          PROVE  IInv'
      <3> HIDE DEF n
      <3>1. n(s) \in Messages /\ n(s) \notin Managing
        BY <2>1, Shapes DEF Messages, Managing
      <3>2. Request(r, n(s))
        BY <2>1 DEF Goes, n
      <3> QED BY <1>2, <2>1, <3>1, <3>2, FitsOn, QuietStep
    <2>2. CASE Validate(r)
      <3>1. CASE req[r] \in Created
        BY <1>3, <2>1, <2>2, <3>1, AdvanceCreated DEF Validate, Created
      <3>2. CASE req[r] \in Updates
        BY <1>3, <2>1, <2>2, <3>2, AdvanceUpdates DEF Validate, Updates
      <3> QED BY <1>1, <2>2, <3>1, <3>2, Shapes DEF Validate
    <2>3. CASE CheckData(r)
      BY <1>1, <1>3, <2>1, <2>3, Shapes, AdvanceCreated DEF CheckData
    <2>4. CASE FindProject(r)
      BY <1>1, <1>3, <2>1, <2>4, Shapes, AdvanceUpdates DEF FindProject
    <2> QED BY <1>4, <2>2, <2>3, <2>4
  <1>5. CASE CheckDuplicate(r)
    <2>1. req[r] \in Adds
      BY <1>1, <1>5, Shapes DEF CheckDuplicate
    <2>2. n("join") \in Adds /\ n("join").at = "join" /\ n("join").id = req[r].id
      BY <2>1, AdvanceAdds
    <2>3. Answer(r) \/ Request(r, n("join"))
      BY <1>5 DEF CheckDuplicate, Goes
    <2>4. req[r].id \in rows /\ ~Unassigned(req[r].id)
      BY <2>1 DEF IInv, Managed, Managing
    <2> HIDE DEF n
    <2>5. n("join") \in Messages
      BY <2>2 DEF Messages
    <2> QED BY <1>2, <1>3, <2>1, <2>2, <2>3, <2>4, <2>5, FitsOn, QuietStep
  <1>6. CASE CanLeave(r)
    <2>1. req[r] \in Leaves
      BY <1>1, <1>6, Shapes DEF CanLeave
    <2>2. n("leave") \in Leaves /\ n("leave").at = "leave" /\ n("leave").id = req[r].id
          /\ n("leave").member = req[r].member
      BY <2>1, AdvanceLeaves
    <2>3. \/ Answer(r)
          \/ /\ Request(r, n("leave"))
             /\ req[r].member \in Members(req[r].id) /\ Owners(req[r].id) # {req[r].member}
      BY <1>6 DEF CanLeave, Goes
    <2>4. req[r].id \in rows /\ ~Unassigned(req[r].id)
      BY <2>1 DEF IInv, Managed, Managing
    <2> HIDE DEF n
    <2>5. n("leave") \in Messages
      BY <2>2 DEF Messages
    <2> QED BY <1>2, <1>3, <2>1, <2>2, <2>3, <2>4, <2>5, FitsOn, QuietStep
  <1> QED BY <1>3, <1>4, <1>5, <1>6 DEF UpdateRow
-----------------------------------------------------------------------------
(* Owners: steps that change rows or members.                                *)
LEMMA InsertStep ==
  ASSUME IInv, TypeInv', NEW r \in Requests, InsertProject(r)
  PROVE  IInv'
  <1> USE DEF IInv
  <1>0. req[r] \in Messages /\ req[r] \in Created /\ ~Pending(r)
    BY Shapes DEF TypeInv, InsertProject, Pending
  <1>1. CASE req[r].id \in rows \/ ~KeysFree(req[r].id, req[r].source)
    <2>1. UNCHANGED tables /\ Answer(r)
      BY <1>1 DEF InsertProject
    <2> QED BY <1>0, <2>1, AnswerStep DEF tables
  <1>2. CASE ~(req[r].id \in rows \/ ~KeysFree(req[r].id, req[r].source))
    <2> DEFINE m == [req[r] EXCEPT !.at = "assign", !.born = inserted']
               p == req[r].id
    <2>1. /\ p \notin rows /\ rows' = rows \cup {p}
          /\ born' = With(born, p, inserted') /\ UNCHANGED role
          /\ Request(r, m)
      BY <1>2 DEF InsertProject
    <2>2. inserted' \in 0 .. MaxRows
      BY DEF TypeInv, TypeOK
    <2>3. m \in Created /\ m.at = "assign" /\ m.id = p /\ m.born = inserted'
      BY <1>0, <2>2 DEF Created
    <2>4. p \in Ids
      BY <1>0 DEF Created
    <2> HIDE DEF m, p
    <2>5. m \in Messages /\ m \notin Managing
      BY <2>3, Shapes DEF Messages, Managing
    <2>6. /\ req'[r] = m /\ \A q \in Requests : q # r => req'[q] = req[q]
          /\ orphaned' = orphaned
      BY <2>1, <2>5, OnlyOne
    <2>7. Pending(r)' /\ \A q \in Requests : q # r => (Pending(q)' <=> Pending(q))
      BY <2>3, <2>6 DEF Pending
    <2>8. born'[p] = inserted' /\ \A q \in rows : born'[q] = born[q] /\ q # p
      BY <2>1 DEF With, TypeInv, TypeOK
    <2>9. OwnRow'
      BY <1>0, <2>1, <2>3, <2>6, <2>7, <2>8 DEF OwnRow
    <2>10. \A q : Unassigned(q)' <=> Unassigned(q) \/ q = p
      BY <1>0, <2>3, <2>6, <2>7 DEF Unassigned, Pending
    <2>11. \A q : Owners(q)' = Owners(q) /\ Members(q)' = Members(q)
      BY <2>1 DEF Owners, Members
    <2>12. Led'
      BY <2>1, <2>6, <2>8, <2>10, <2>11 DEF Led
    <2>13. Managed'
      BY <2>1, <2>5, <2>6, <2>10 DEF Managed
    <2>14. LeavesOthers'
      BY <2>3, <2>6, <2>11 DEF LeavesOthers
    <2>15. Serial'
      BY <2>1, <2>5, FitsOn, SerialKept
    <2> QED BY <2>9, <2>12, <2>13, <2>14, <2>15
  <1> QED BY <1>1, <1>2

(* The role of one user of one project changes.                              *)
LEMMA RoleChange ==
  ASSUME TypeInv, NEW p \in Ids, NEW u \in Users, NEW x, role' = [role EXCEPT ![p][u] = x]
  PROVE  /\ \A q \in Ids \ {p} : Owners(q)' = Owners(q) /\ Members(q)' = Members(q)
         /\ Owners(p)' = IF x = "owner" THEN Owners(p) \cup {u} ELSE Owners(p) \ {u}
         /\ Members(p)' = IF x # "none" THEN Members(p) \cup {u} ELSE Members(p) \ {u}
  <1>1. role \in [Ids -> [Users -> Roles \cup {"none"}]]
    BY DEF TypeInv, TypeOK
  <1>2. \A q \in Ids, v \in Users : role'[q][v] = IF q = p /\ v = u THEN x ELSE role[q][v]
    BY <1>1
  <1> QED BY <1>2 DEF Owners, Members

(* What becomes of Led, Managed and LeavesOthers when u becomes a member of  *)
(* p, which is registered, and the request r is answered.                    *)
LEMMA JoinsInv ==
  ASSUME IInv, TypeInv', NEW r \in Requests, Answer(r), ~Pending(r) \/ OwnRow',
         UNCHANGED <<rows, born>>, NEW p \in Ids, NEW u \in Users, NEW x \in Roles,
         role[p][u] = "none", role' = [role EXCEPT ![p][u] = x],
         \A q \in rows : Unassigned(q) => Unassigned(q)' \/ (q = p /\ x = "owner")
  PROVE  IInv'
  <1> USE DEF IInv
  <1>1. Free \in Messages /\ Free.at = "free" /\ Free \notin Managing /\ Request(r, Free)
    BY FreeTyped, Shapes DEF Managing, Answer
  <1>2. /\ req'[r] = Free /\ \A q \in Requests : q # r => req'[q] = req[q]
        /\ orphaned' = orphaned
    BY <1>1, OnlyOne
  <1>3. /\ \A q \in Ids \ {p} : Owners(q)' = Owners(q) /\ Members(q)' = Members(q)
        /\ Owners(p)' \in {Owners(p), Owners(p) \cup {u}}
        /\ x = "owner" => u \in Owners(p)'
        /\ Members(p)' = Members(p) \cup {u} /\ u \notin Members(p)
    <2>1. x # "none" /\ u \notin Members(p)
      BY DEF Roles, Members
    <2>2. /\ \A q \in Ids \ {p} : Owners(q)' = Owners(q) /\ Members(q)' = Members(q)
          /\ Owners(p)' = IF x = "owner" THEN Owners(p) \cup {u} ELSE Owners(p) \ {u}
          /\ Members(p)' = IF x # "none" THEN Members(p) \cup {u} ELSE Members(p) \ {u}
      BY RoleChange
    <2>3. u \notin Owners(p)
      BY DEF Owners
    <2> QED BY <2>1, <2>2, <2>3
  <1>4. \A q : Unassigned(q)' => Unassigned(q)
    BY <1>1, <1>2 DEF Unassigned
  <1>5. OwnRow'
    BY <1>1, <1>2 DEF OwnRow, Pending
  <1>6. Led'
    <2> SUFFICES ASSUME NEW q \in rows, Owners(q)' = {} PROVE Unassigned(q)' \/ born[q] \in orphaned
      BY <1>2 DEF Led
    <2>1. q \in Ids /\ Owners(q) = {} /\ ~(q = p /\ x = "owner")
      BY <1>3 DEF TypeInv, TypeOK
    <2> QED BY <2>1 DEF Led
  <1>7. Managed'
    BY <1>1, <1>2, <1>4 DEF Managed
  <1>8. LeavesOthers'
    <2> SUFFICES ASSUME NEW q \in Requests, req'[q].at = "leave"
                 PROVE  (req[q].member \in Members(req[q].id) /\ Owners(req[q].id) # {req[q].member})'
      BY DEF LeavesOthers
    <2>1. q # r /\ req'[q] = req[q] /\ req[q] \in Leaves
      BY <1>1, <1>2, Shapes DEF TypeInv
    <2>2. /\ req[q].id \in Ids /\ req[q].member \in Members(req[q].id)
          /\ Owners(req[q].id) # {req[q].member}
      BY <2>1 DEF Leaves, LeavesOthers
    <2>3. CASE req[q].id # p
      BY <1>3, <2>1, <2>2, <2>3
    <2>4. CASE req[q].id = p
      <3>1. req[q].member # u
        BY <1>3, <2>2, <2>4
      <3> QED BY <1>3, <2>1, <2>2, <2>4, <3>1
    <2> QED BY <2>3, <2>4
  <1>9. Serial'
    BY <1>1, FitsOn, SerialKept
  <1> QED BY <1>5, <1>6, <1>7, <1>8, <1>9

LEMMA JoinStep ==
  ASSUME IInv, TypeInv', NEW r \in Requests, Join(r)
  PROVE  IInv'
  <1> USE DEF IInv
  <1>0. req[r] \in Messages /\ req[r] \in Adds /\ ~Pending(r) /\ Answer(r) /\ UNCHANGED <<rows, born>>
    BY Shapes DEF TypeInv, Join, Pending
  <1>1. CASE UNCHANGED role
    BY <1>0, <1>1, AnswerStep
  <1>2. CASE ~UNCHANGED role
    <2>1. req[r].id \in Ids /\ req[r].member \in Users /\ req[r].role \in Roles
      BY <1>0 DEF Adds
    <2>2. /\ role[req[r].id][req[r].member] = "none"
          /\ role' = [role EXCEPT ![req[r].id][req[r].member] = req[r].role]
      BY <1>2 DEF Join
    <2>3. \A q \in rows : Unassigned(q) => Unassigned(q)'
      BY <1>0, OnlyOne, FreeTyped DEF Unassigned, Pending, Answer
    <2> QED BY <1>0, <2>1, <2>2, <2>3, JoinsInv
  <1> QED BY <1>1, <1>2

LEMMA AssignStep ==
  ASSUME IInv, TypeInv', NEW r \in Requests, AssignOwner(r)
  PROVE  IInv'
  <1> USE DEF IInv
  <1>0. /\ req[r] \in Messages /\ req[r] \in Created /\ Pending(r)
        /\ req[r].id \in Ids /\ req[r].user \in Users
    BY Shapes DEF TypeInv, AssignOwner, Pending, Created
  <1>1. CASE UNCHANGED tables /\ Goes(r, "rollback")
    <2> DEFINE m == [req[r] EXCEPT !.at = "rollback"]
    <2>1. m \in Created /\ m.at = "rollback" /\ m.id = req[r].id /\ m.born = req[r].born
      BY <1>0, AdvanceCreated
    <2>2. Request(r, m)
      BY <1>1 DEF Goes
    <2> HIDE DEF m
    <2>3. m \in Messages /\ m \notin Managing
      BY <2>1, Shapes DEF Messages, Managing
    <2>4. UNCHANGED <<rows, born, role>>
      BY <1>1 DEF tables
    <2> QED BY <1>0, <2>1, <2>2, <2>3, <2>4, FitsOn, QuietStep
  <1>2. CASE /\ role[req[r].id][req[r].user] = "none"
             /\ role' = [role EXCEPT ![req[r].id][req[r].user] = "owner"]
             /\ Answer(r) /\ UNCHANGED <<rows, source, platform, born, inserted>>
    <2>1. /\ req'[r] = Free /\ \A q \in Requests : q # r => req'[q] = req[q]
      BY <1>2, OnlyOne, FreeTyped DEF Answer
    <2>2. \A q : Unassigned(q) => Unassigned(q)' \/ q = req[r].id
      BY <2>1 DEF Unassigned
    <2>3. OwnRow'
      BY <1>2, <2>1, FreeTyped DEF OwnRow, Pending
    <2> QED BY <1>0, <1>2, <2>2, <2>3, JoinsInv DEF Roles
  <1> QED BY <1>1, <1>2 DEF AssignOwner

LEMMA LeaveStep ==
  ASSUME IInv, TypeInv', NEW r \in Requests, Leave(r)
  PROVE  IInv'
  <1> USE DEF IInv
  <1>0. /\ req[r] \in Messages /\ req[r] \in Leaves /\ ~Pending(r)
        /\ req[r].at = "leave" /\ req[r].id \in Ids /\ req[r].member \in Users
        /\ Answer(r) /\ UNCHANGED <<rows, born>>
        /\ role' = [role EXCEPT ![req[r].id][req[r].member] = "none"]
    BY Shapes DEF TypeInv, Leave, Pending, Leaves
  <1>1. Free \in Messages /\ Free.at = "free" /\ Free \notin Managing /\ Request(r, Free)
    BY <1>0, FreeTyped, Shapes DEF Managing, Answer
  <1>2. /\ req'[r] = Free /\ \A q \in Requests : q # r => req'[q] = req[q]
        /\ orphaned' = orphaned
    BY <1>1, OnlyOne
  <1>3. \A q \in Ids : Owners(q) # {} => Owners(q)' # {}
    <2>1. Owners(req[r].id) # {req[r].member}
      BY <1>0 DEF LeavesOthers
    <2>2. PICK p \in Ids, u \in Users : p = req[r].id /\ u = req[r].member
      BY <1>0
    <2>3. Owners(p)' = Owners(p) \ {u} /\ \A q \in Ids \ {p} : Owners(q)' = Owners(q)
      BY <1>0, <2>2, RoleChange
    <2> QED BY <2>1, <2>2, <2>3
  <1>4. \A q : Unassigned(q)' <=> Unassigned(q)
    BY <1>0, <1>1, <1>2 DEF Unassigned, Pending
  <1>5. OwnRow'
    BY <1>0, <1>1, <1>2 DEF OwnRow, Pending
  <1>6. Led'
    BY <1>0, <1>2, <1>3, <1>4 DEF Led, TypeInv, TypeOK
  <1>7. Managed'
    BY <1>0, <1>1, <1>2, <1>4 DEF Managed
  <1>8. LeavesOthers'
    <2>1. \A q \in Requests : q # r => req[q] \notin Leaves
      BY <1>0 DEF Serial
    <2>2. \A q \in Requests : req'[q].at # "leave"
      BY <1>1, <1>2, <2>1, Shapes DEF TypeInv
    <2> QED BY <2>2 DEF LeavesOthers
  <1>9. Serial'
    BY <1>1, FitsOn, SerialKept
  <1> QED BY <1>5, <1>6, <1>7, <1>8, <1>9

(* A project goes that is managed by nobody else, and that no other create   *)
(* has inserted.                                                             *)
LEMMA DeleteStep ==
  ASSUME IInv, TypeInv', NEW r \in Requests, Rollback(r) \/ DeleteProject(r)
  PROVE  IInv'
  <1> USE DEF IInv
  <1> DEFINE p == req[r].id
  <1>0. req[r] \in Messages /\ Answer(r)
    BY DEF TypeInv, Rollback, DeleteProject
  <1>1. /\ p \in rows
        /\ \A q \in Requests : q # r => /\ Pending(q) => req[q].id # p
                                        /\ req[q] \in Managing => req[q].id # p
    <2>1. CASE Rollback(r)
      <3>1. Pending(r)
        BY <2>1 DEF Rollback, Pending
      <3>2. Unassigned(p) /\ p \in rows
        BY <3>1 DEF Unassigned, Pending, OwnRow
      <3>3. \A q \in Requests : q # r /\ Pending(q) => req[q].id # p
        BY <3>1 DEF OwnRow
      <3>4. \A q \in Requests : req[q] \in Managing => req[q].id # p
        BY <3>2 DEF Managed
      <3> QED BY <3>2, <3>3, <3>4
    <2>2. CASE DeleteProject(r)
      <3>1. req[r] \in Removes
        BY <1>0, <2>2, Shapes DEF DeleteProject
      <3>2. p \in rows /\ ~Unassigned(p)
        BY <3>1 DEF Managed, Managing
      <3>3. \A q \in Requests : Pending(q) => req[q].id # p
        BY <3>2 DEF Unassigned, Pending
      <3>4. \A q \in Requests : q # r => req[q] \notin Managing
        BY <3>1 DEF Serial
      <3> QED BY <3>2, <3>3, <3>4
    <2> QED BY <2>1, <2>2
  <1>2. DeleteRow(p)
    BY <1>1 DEF Rollback, DeleteProject
  <1>3. Free \in Messages /\ Free.at = "free" /\ Free \notin Managing /\ Request(r, Free)
    BY <1>0, FreeTyped, Shapes DEF Managing, Answer
  <1>4. /\ req'[r] = Free /\ \A q \in Requests : q # r => req'[q] = req[q]
        /\ orphaned' = orphaned
    BY <1>3, OnlyOne
  <1> HIDE DEF p
  <1>5. rows' = rows \ {p} /\ \A q \in rows \ {p} : born'[q] = born[q]
    BY <1>2 DEF DeleteRow, Without, TypeInv, TypeOK
  <1>6. \A q \in Ids \ {p} : Owners(q)' = Owners(q) /\ Members(q)' = Members(q)
    BY <1>2 DEF DeleteRow, Owners, Members, TypeInv, TypeOK
  <1>7. \A q : q # p => (Unassigned(q)' <=> Unassigned(q))
    BY <1>3, <1>4 DEF Unassigned, p
  <1>8. OwnRow'
    BY <1>1, <1>3, <1>4, <1>5 DEF OwnRow, Pending
  <1>9. Led'
    BY <1>4, <1>5, <1>6, <1>7 DEF Led, TypeInv, TypeOK
  <1>10. Managed'
    BY <1>1, <1>3, <1>4, <1>5, <1>7 DEF Managed
  <1>11. LeavesOthers'
    <2> SUFFICES ASSUME NEW q \in Requests, req'[q].at = "leave"
                 PROVE  (req[q].member \in Members(req[q].id) /\ Owners(req[q].id) # {req[q].member})'
      BY DEF LeavesOthers
    <2>1. q # r /\ req'[q] = req[q] /\ req[q] \in Leaves
      BY <1>3, <1>4, Shapes DEF TypeInv
    <2>2. req[q].id \in Ids \ {p}
      BY <1>1, <2>1 DEF Leaves, Managing
    <2>3. req[q].member \in Members(req[q].id) /\ Owners(req[q].id) # {req[q].member}
      BY <2>1, Shapes DEF LeavesOthers
    <2> QED BY <1>6, <2>1, <2>2, <2>3
  <1>12. Serial'
    BY <1>3, FitsOn, SerialKept
  <1> QED BY <1>8, <1>9, <1>10, <1>11, <1>12

LEMMA CrashStep == ASSUME IInv, TypeInv', Crash PROVE IInv'
  <1> USE DEF IInv
  <1>1. \A r \in Requests : req'[r] = Free
    BY DEF Crash
  <1>2. Free.at = "free" /\ Free \notin Managing
    BY FreeTyped, Shapes DEF Managing
  <1>3. UNCHANGED <<rows, born, role>>
    BY DEF Crash, tables
  <1>4. OwnRow' /\ Managed' /\ LeavesOthers' /\ Serial'
    BY <1>1, <1>2 DEF OwnRow, Pending, Managed, LeavesOthers, Serial, Managing
  <1>5. Led'
    <2> SUFFICES ASSUME NEW p \in rows, Owners(p) = {} PROVE born[p] \in orphaned'
      BY <1>3 DEF Led, Owners
    <2>1. CASE born[p] \in orphaned
      BY <2>1 DEF Crash
    <2>2. CASE Unassigned(p)
      <3>1. PICK r \in Requests : req[r].at \in {"assign", "rollback"} /\ req[r].id = p
        BY <2>2 DEF Unassigned
      <3>2. born[p] = req[r].born
        BY <3>1 DEF OwnRow, Pending
      <3> QED BY <3>1, <3>2 DEF Crash
    <2> QED BY <2>1, <2>2 DEF Led
  <1> QED BY <1>4, <1>5
-----------------------------------------------------------------------------
LEMMA InvStep == OneRemovalAtATime /\ IInv /\ [Next]_vars => IInv'
  <1> SUFFICES ASSUME OneRemovalAtATime, IInv, Next \/ UNCHANGED vars PROVE IInv'
    OBVIOUS
  <1>1. TypeInv'
    BY TypeStep DEF IInv
  <1>2. CASE UNCHANGED vars
    BY <1>1, <1>2 DEF vars, tables, IInv, OwnRow, Pending, Led, Owners, Members, Unassigned, Managed,
                      LeavesOthers, Serial
  <1>3. CASE Next
    BY <1>1, <1>3, BeginStep, StepOn, InsertStep, AssignStep, DeleteStep, JoinStep, LeaveStep, CrashStep
    DEF Next
  <1> QED BY <1>2, <1>3

LEMMA InvInit == Init => IInv
  <1> SUFFICES ASSUME Init PROVE IInv
    OBVIOUS
  <1>1. TypeInv
    BY RegistrationAssumption, FreeTyped DEF Init, TypeInv, TypeOK, BornInserted, Pending, Messages
  <1>2. rows = {} /\ \A r \in Requests : req[r] = Free
    BY DEF Init
  <1>3. Free.at = "free" /\ Free \notin Managing
    BY FreeTyped, Shapes DEF Managing
  <1> QED BY <1>1, <1>2, <1>3 DEF IInv, OwnRow, Pending, Led, Managed, LeavesOthers, Serial, Managing

(* The invariant behind the two theorems that follow.                        *)
THEOREM InductiveInvariant == ASSUME OneRemovalAtATime PROVE Spec => []IInv
  BY InvInit, InvStep, PTL DEF Spec

(* create assigns and undoes its own row only, and leaves no project behind  *)
(* that has no members, unless it dies: where the removals do not overlap.   *)
THEOREM CreateFinishesItsOwnHolds == ASSUME OneRemovalAtATime PROVE Spec => []CreateFinishesItsOwn
  <1>1. IInv => CreateFinishesItsOwn
    <2> SUFFICES ASSUME IInv PROVE CreateFinishesItsOwn
      OBVIOUS
    <2>1. \A p \in rows : Members(p) = {} => Owners(p) = {}
      BY DEF Members, Owners
    <2> QED BY <2>1 DEF IInv, OwnRow, Pending, Led, CreateFinishesItsOwn
  <1> QED BY <1>1, InductiveInvariant, PTL

(* The roles are changed by four statements only.                            *)
LEMMA RoleOnlyBy ==
  ASSUME Next
  PROVE  \/ UNCHANGED role
         \/ \E r \in Requests : Leave(r) \/ Join(r) \/ AssignOwner(r)
         \/ \E q \in rows : DeleteRow(q)
  <1> USE DEF tables
  <1>1. ASSUME NEW r \in Requests,
               \/ Validate(r) \/ CheckData(r) \/ InsertProject(r) \/ FindProject(r) \/ UpdateRow(r)
               \/ CheckDuplicate(r) \/ CanLeave(r)
        PROVE  UNCHANGED role
    BY <1>1 DEF Validate, CheckData, InsertProject, FindProject, UpdateRow, CheckDuplicate, CanLeave
  <1>2. ASSUME NEW r \in Requests, Rollback(r) \/ DeleteProject(r)
        PROVE  UNCHANGED role \/ \E q \in rows : DeleteRow(q)
    BY <1>2 DEF Rollback, DeleteProject
  <1>3. ASSUME NEW r \in Requests, NEW u \in Users, NEW s \in Sources, Create(r, u, s) \/ UpdateSource(r, u, s)
        PROVE  UNCHANGED role
    BY <1>3 DEF Create, UpdateSource
  <1>4. ASSUME NEW r \in Requests, NEW u \in Users, NEW p \in Ids, NEW v \in Users, NEW o \in Roles,
               Remove(r, u, p) \/ RemoveMember(r, u, p, v) \/ AddMember(r, u, p, v, o)
        PROVE  UNCHANGED role
    BY <1>4 DEF Remove, RemoveMember, AddMember
  <1>5. Crash => UNCHANGED role
    BY DEF Crash
  <1> HIDE DEF tables
  <1> QED BY <1>1, <1>2, <1>3, <1>4, <1>5 DEF Next, Roles

(* A project keeps an owner for as long as it exists, whatever members and   *)
(* admins do, where the removals do not overlap.                             *)
THEOREM OwnerRemainsHolds == ASSUME OneRemovalAtATime PROVE Spec => OwnerRemains
  <1>1. IInv /\ [Next]_vars => [\A p \in rows \cap rows' : Owners(p) # {} => Owners(p)' # {}]_vars
    <2> SUFFICES ASSUME IInv, Next, NEW p \in rows \cap rows', Owners(p) # {} PROVE Owners(p)' # {}
      OBVIOUS
    <2> USE DEF IInv
    <2>0. p \in Ids
      BY DEF TypeInv, TypeOK
    <2>1. CASE UNCHANGED role
      BY <2>1 DEF Owners
    <2>2. ASSUME NEW r \in Requests, Leave(r) PROVE Owners(p)' # {}
      <3>1. req[r] \in Leaves /\ req[r].id \in Ids /\ req[r].member \in Users
        BY <2>2, Shapes DEF TypeInv, Leave, Leaves
      <3>2. Owners(req[r].id) # {req[r].member}
        BY <2>2 DEF Leave, LeavesOthers
      <3>3. PICK q \in Ids, v \in Users : q = req[r].id /\ v = req[r].member
        BY <3>1
      <3>4. role' = [role EXCEPT ![q][v] = "none"]
        BY <2>2, <3>3 DEF Leave
      <3>5. Owners(q)' = Owners(q) \ {v} /\ \A o \in Ids \ {q} : Owners(o)' = Owners(o)
        BY <3>4, RoleChange
      <3> QED BY <2>0, <3>2, <3>3, <3>5
    <2>3. ASSUME NEW r \in Requests, Join(r), ~UNCHANGED role PROVE Owners(p)' # {}
      <3>1. req[r].id \in Ids /\ req[r].member \in Users
        BY <2>3, Shapes DEF TypeInv, Join, Adds
      <3>2. role[req[r].id][req[r].member] = "none"
            /\ role' = [role EXCEPT ![req[r].id][req[r].member] = req[r].role]
        BY <2>3 DEF Join
      <3> QED BY <2>0, <3>1, <3>2, RoleChange DEF Owners
    <2>4. ASSUME NEW r \in Requests, AssignOwner(r), ~UNCHANGED role PROVE Owners(p)' # {}
      <3>1. req[r].id \in Ids /\ req[r].user \in Users
        BY <2>4, Shapes DEF TypeInv, AssignOwner, Created
      <3>2. role' = [role EXCEPT ![req[r].id][req[r].user] = "owner"]
        BY <2>4 DEF AssignOwner, tables
      <3> QED BY <2>0, <3>1, <3>2, RoleChange
    <2>5. ASSUME NEW q \in rows, DeleteRow(q) PROVE Owners(p)' # {}
      BY <2>0, <2>5 DEF DeleteRow, Owners, TypeInv, TypeOK
    <2>6. \/ UNCHANGED role
          \/ \E r \in Requests : Leave(r) \/ Join(r) \/ AssignOwner(r)
          \/ \E q \in rows : DeleteRow(q)
      BY RoleOnlyBy
    <2> QED BY <2>1, <2>2, <2>3, <2>4, <2>5, <2>6
  <1> QED BY <1>1, InductiveInvariant, PTL DEF Spec, OwnerRemains

(* A role is given once and then only taken, whatever overlaps.              *)
THEOREM RoleIsKeptHolds == Spec => RoleIsKept
  <1>1. TypeInv /\ [Next]_vars => [\A p \in Ids, u \in Users :
            role[p][u] # "none" /\ role'[p][u] # role[p][u] => role'[p][u] = "none"]_vars
    <2> SUFFICES ASSUME TypeInv, Next, NEW p \in Ids, NEW u \in Users,
                        role[p][u] # "none", role'[p][u] # role[p][u]
                 PROVE  role'[p][u] = "none"
      OBVIOUS
    <2>0. role \in [Ids -> [Users -> Roles \cup {"none"}]]
      BY DEF TypeInv, TypeOK
    <2>1. ASSUME NEW q \in Ids, NEW v \in Users, NEW x, role' = [role EXCEPT ![q][v] = x]
          PROVE  q = p /\ v = u /\ role'[p][u] = x
      BY <2>0, <2>1
    <2>2. ASSUME NEW r \in Requests, Leave(r) PROVE role'[p][u] = "none"
      <3>1. req[r].id \in Ids /\ req[r].member \in Users
        BY <2>2, Shapes DEF TypeInv, Leave, Leaves
      <3> QED BY <2>1, <2>2, <3>1 DEF Leave
    <2>3. ASSUME NEW r \in Requests, Join(r) \/ AssignOwner(r) PROVE UNCHANGED role
      <3>1. CASE Join(r)
        <4>1. req[r].id \in Ids /\ req[r].member \in Users
          BY <3>1, Shapes DEF TypeInv, Join, Adds
        <4> QED BY <2>1, <3>1, <4>1 DEF Join
      <3>2. CASE AssignOwner(r)
        <4>1. req[r].id \in Ids /\ req[r].user \in Users
          BY <3>2, Shapes DEF TypeInv, AssignOwner, Created
        <4> QED BY <2>1, <3>2, <4>1 DEF AssignOwner, tables
      <3> QED BY <2>3, <3>1, <3>2
    <2>4. ASSUME NEW q \in Ids, DeleteRow(q) PROVE role'[p][u] = "none"
      BY <2>0, <2>4 DEF DeleteRow
    <2>6. rows \subseteq Ids
      BY DEF TypeInv, TypeOK
    <2> QED BY <2>2, <2>3, <2>4, <2>6, RoleOnlyBy
  <1>2. Init => TypeInv
    BY InvInit DEF IInv
  <1> QED BY <1>1, <1>2, TypeStep, PTL DEF Spec, RoleIsKept
=============================================================================
