----------------------------- MODULE ShowsProofs -----------------------------
(***************************************************************************)
(* What holds of shows for every number of requests, users and shows: the  *)
(* types, the posters on disk, and what a write may do to a row although   *)
(* it was decided on an earlier one.                                       *)
(***************************************************************************)
EXTENDS Shows, TLAPS

\* A request under way is at a step of its own operation.
ControlOK ==
  \A r \in Request :
    /\ pc[r] \in Working => call[r] # None
    /\ pc[r] = "insert" => call[r].op = "Create"
    /\ pc[r] \in {"readShow", "write"} => call[r].op # "Create"

\* The ids from nextId on are not in use yet.
FreshIds == \A h \in ShowId : h >= nextId => show[h] = None

\* A request that is about to write was allowed to by the row it read, which
\* has the organizer that the row has now, if it is still there.
ReadOK ==
  \A r \in Request : pc[r] = "write" =>
    /\ read[r] # None
    /\ Decision(call[r], read[r]) = "write"
    /\ call[r].show < nextId
    /\ show[call[r].show] # None =>
         show[call[r].show].organizer = read[r].organizer

\* An upload under way has saved its file.
PosterSaved ==
  \A r \in Request :
    pc[r] \in {"readShow", "write"} /\ call[r].op = "UploadPoster" => r \in files

Inv == TypeOK /\ ControlOK /\ FreshIds /\ ReadOK /\ PosterSaved /\ PosterFileExists

\* The records of a call, told apart by their field op.
LEMMA CallFields ==
  ASSUME NEW c \in Call, c.op # "Create"
  PROVE  /\ c.show \in ShowId
         /\ c.op \in {"Update", "Delete", "UploadPoster", "CancelShow", "Moderate"}
         /\ c.op # "Moderate" => c.user \in User
         /\ c.op = "Update" => c.status \in ShowStatus \cup {None}
BY DEF Call

\* A row that has been edited is a row, with the organizer and poster it had.
LEMMA EditedType ==
  ASSUME NEW r \in Request, NEW c \in Call, c.op = "Update", NEW s \in Row
  PROVE  /\ Edited(r, c, s) \in Row
         /\ Edited(r, c, s).title \in {s.title, r}
         /\ Edited(r, c, s).venue \in {s.venue, r}
         /\ Edited(r, c, s).status = IF c.status = None THEN s.status ELSE c.status
BY CallFields DEF Edited, Row

\* What a statement makes of a row is a row or nothing; it leaves the organizer
\* alone, and only an upload changes the poster.
LEMMA WrittenType ==
  ASSUME NEW r \in Request, NEW c \in Call, c.op # "Create", NEW s \in Row, NEW row \in Row,
         Written(r, c, s, row) # None
  PROVE  /\ Written(r, c, s, row) \in Row
         /\ Written(r, c, s, row).organizer = row.organizer
         /\ Written(r, c, s, row).poster = IF c.op = "UploadPoster" THEN r ELSE row.poster
<1>1. CASE c.op = "Update"
  <2>1. Edited(r, c, s) \in Row
    BY <1>1, EditedType
  <2>. QED
    BY <1>1, <2>1 DEF Written, Row
<1>2. CASE c.op = "Delete"
  BY <1>2 DEF Written
<1>3. CASE c.op = "UploadPoster"
  BY <1>3 DEF Written, Row
<1>4. CASE c.op = "CancelShow"
  BY <1>4 DEF Written, Row, ShowStatus
<1>5. CASE c.op = "Moderate"
  BY <1>5 DEF Written, Row, ShowStatus
<1>. QED
  BY <1>1, <1>2, <1>3, <1>4, <1>5, CallFields

\* At first there is nothing.
LEMMA InitInv == Init => Inv
BY ShowsAssumption
DEF Init, Inv, TypeOK, ControlOK, FreshIds, ReadOK, PosterSaved, PosterFileExists, ShowId, Working

\* A request that arrives has read nothing yet, and an upload has saved its file.
LEMMA StartInv ==
  ASSUME Inv, NEW r \in Request, NEW c \in Call, NEW p \in {"insert", "readShow"},
         Start(r, c, p), p = "insert" <=> c.op = "Create",
         files \subseteq files', files' \subseteq Request,
         c.op = "UploadPoster" => r \in files',
         UNCHANGED <<nextId, show>>
  PROVE  Inv'
<1>1. c # None
  BY ShowsAssumption DEF Call
<1>2. pc[r] = "new" /\ pc'[r] = p /\ call'[r] = c /\ read' = read
  BY DEF Inv, TypeOK, Start
<1>3. \A q \in Request \ {r} : pc'[q] = pc[q] /\ call'[q] = call[q]
  BY DEF Inv, TypeOK, Start
<1>4. TypeOK'
  BY <1>2, <1>3 DEF Inv, TypeOK, Start, Working
<1>5. ControlOK'
  BY <1>1, <1>2, <1>3 DEF Inv, ControlOK
<1>6. ReadOK' /\ FreshIds'
  BY <1>2, <1>3 DEF Inv, ReadOK, FreshIds
<1>7. PosterSaved' /\ PosterFileExists'
  BY <1>2, <1>3 DEF Inv, PosterSaved, PosterFileExists
<1>. QED
  BY <1>4, <1>5, <1>6, <1>7 DEF Inv

\* A request that is answered forgets its locals; whatever its statement did, the
\* ids in use are below nextId, and no show has got another organizer.
LEMMA ReplyInv ==
  ASSUME Inv, NEW r \in Request, NEW outcome \in Replied, Reply(r, outcome),
         UNCHANGED files,
         nextId' \in 1..(MaxShow + 1), nextId' >= nextId,
         show' \in [ShowId -> Row \cup {None}],
         \A h \in ShowId : h >= nextId' => show'[h] = None,
         \A h \in ShowId : h < nextId /\ show'[h] # None =>
           show[h] # None /\ show'[h].organizer = show[h].organizer,
         PosterFileExists'
  PROVE  Inv'
<1>1. pc'[r] \in Replied /\ call'[r] = None /\ read'[r] = None
  BY DEF Inv, TypeOK, Reply
<1>2. \A q \in Request \ {r} : pc'[q] = pc[q] /\ call'[q] = call[q] /\ read'[q] = read[q]
  BY DEF Inv, TypeOK, Reply
<1>3. TypeOK'
  BY DEF Inv, TypeOK, Reply
<1>4. ControlOK'
  BY <1>1, <1>2 DEF Inv, ControlOK, Replied, Working
<1>5. FreshIds'
  BY DEF FreshIds
<1>6. ReadOK'
  <2>. SUFFICES ASSUME NEW q \in Request, pc'[q] = "write"
                PROVE  /\ read'[q] # None
                       /\ Decision(call'[q], read'[q]) = "write"
                       /\ call'[q].show < nextId'
                       /\ show'[call'[q].show] # None =>
                            show'[call'[q].show].organizer = read'[q].organizer
    BY DEF ReadOK, Decision, TransitionOK
  <2>1. q # r /\ pc[q] = "write" /\ call'[q] = call[q] /\ read'[q] = read[q]
    BY <1>1, <1>2 DEF Replied
  <2>2. call[q] \in Call /\ call[q].op # "Create"
    BY <2>1 DEF Inv, TypeOK, ControlOK, Working
  <2>3. call[q].show \in ShowId
    BY <2>2, CallFields
  <2>4. /\ read[q] # None /\ Decision(call[q], read[q]) = "write" /\ call[q].show < nextId
        /\ show[call[q].show] # None => show[call[q].show].organizer = read[q].organizer
    BY <2>1 DEF Inv, ReadOK
  <2>5. nextId \in Nat /\ nextId' \in Nat /\ call[q].show \in Nat
    BY <2>3, ShowsAssumption DEF Inv, TypeOK, ShowId
  <2>. QED
    BY <2>1, <2>3, <2>4, <2>5
<1>7. PosterSaved'
  BY <1>1, <1>2 DEF Inv, PosterSaved, Replied
<1>. QED
  BY <1>3, <1>4, <1>5, <1>6, <1>7 DEF Inv

\* Create inserts a draft under an id that no request has seen.
LEMMA InsertInv ==
  ASSUME Inv, NEW r \in Request, InsertShow(r)
  PROVE  Inv'
<1>. DEFINE new == [organizer |-> call[r].user, title |-> r, venue |-> r,
                    status |-> "draft", poster |-> None]
<1>1. call[r] \in Call /\ call[r].op = "Create"
  BY DEF InsertShow, Inv, TypeOK, ControlOK, Working
<1>2. call[r].user \in User
  BY <1>1 DEF Call
<1>3. new \in Row /\ new.poster = None
  BY <1>2 DEF Row, ShowStatus
<1>. HIDE DEF new
<1>4. nextId \in ShowId /\ nextId \in Nat /\ nextId' = nextId + 1
  BY ShowsAssumption DEF InsertShow, Inv, TypeOK, ShowId
<1>5. show' = [show EXCEPT ![nextId] = new] /\ UNCHANGED files
  BY DEF InsertShow, new
<1>6. show' \in [ShowId -> Row \cup {None}]
  BY <1>3, <1>5 DEF Inv, TypeOK
<1>7. \A h \in ShowId : h # nextId => show'[h] = show[h]
  BY <1>5 DEF Inv, TypeOK
<1>8. show'[nextId] = new
  BY <1>4, <1>5 DEF Inv, TypeOK
<1>9. PosterFileExists'
  BY <1>3, <1>5, <1>7, <1>8 DEF PosterFileExists, Inv
<1>10. PICK outcome \in Replied : Reply(r, outcome)
  BY DEF InsertShow, Replied
<1>11. \A h \in ShowId : h >= nextId' => show'[h] = None
  BY <1>4, <1>7 DEF Inv, FreshIds, ShowId
<1>12. \A h \in ShowId : h < nextId => show'[h] = show[h]
  BY <1>4, <1>7 DEF ShowId
<1>13. nextId' \in 1..(MaxShow + 1) /\ nextId' >= nextId
  BY <1>4, ShowsAssumption DEF ShowId
<1>. QED
  BY <1>5, <1>6, <1>9, <1>10, <1>11, <1>12, <1>13, ReplyInv

\* A request that goes on to write was allowed to by a show that is there.
LEMMA ReadInv ==
  ASSUME Inv, NEW r \in Request, ReadShow(r)
  PROVE  Inv'
<1>. DEFINE s == show[call[r].show]
<1>1. UNCHANGED <<nextId, show, files>>
  BY DEF ReadShow
<1>2. call[r] \in Call /\ call[r].op # "Create" /\ call[r].show \in ShowId
  BY CallFields DEF ReadShow, Inv, TypeOK, ControlOK, Working
<1>3. CASE Decision(call[r], s) = "write"
  <2>1. /\ read' = [read EXCEPT ![r] = s] /\ pc' = [pc EXCEPT ![r] = "write"]
        /\ UNCHANGED call
    BY <1>3 DEF ReadShow
  <2>2. s \in Row /\ s # None
    BY <1>2, <1>3 DEF Decision, Inv, TypeOK
  <2>3. call[r].show < nextId
    BY <1>2, <2>2, ShowsAssumption DEF Inv, TypeOK, FreshIds, ShowId
  <2>4. read'[r] = s /\ pc'[r] = "write"
    BY <2>1 DEF Inv, TypeOK
  <2>5. \A q \in Request \ {r} : pc'[q] = pc[q] /\ read'[q] = read[q]
    BY <2>1 DEF Inv, TypeOK
  <2>6. TypeOK'
    BY <1>1, <2>1, <2>2 DEF Inv, TypeOK, Working
  <2>7. ControlOK' /\ PosterSaved'
    BY <1>1, <2>1, <2>4, <2>5 DEF Inv, ControlOK, PosterSaved, ReadShow, Working
  <2>8. FreshIds' /\ PosterFileExists'
    BY <1>1 DEF Inv, FreshIds, PosterFileExists
  <2>9. ReadOK'
    <3>. SUFFICES ASSUME NEW q \in Request, pc'[q] = "write"
                  PROVE  /\ read'[q] # None
                         /\ Decision(call[q], read'[q]) = "write"
                         /\ call[q].show < nextId
                         /\ show[call[q].show] # None =>
                              show[call[q].show].organizer = read'[q].organizer
      BY <1>1, <2>1 DEF ReadOK, Decision, TransitionOK
    <3>1. CASE q = r
      BY <1>3, <2>2, <2>3, <2>4, <3>1
    <3>2. CASE q # r
      BY <2>5, <3>2 DEF Inv, ReadOK
    <3>. QED
      BY <3>1, <3>2
  <2>. QED
    BY <2>6, <2>7, <2>8, <2>9 DEF Inv
<1>4. CASE Decision(call[r], s) # "write"
  <2>1. Reply(r, Decision(call[r], s))
    BY <1>4 DEF ReadShow
  <2>2. Decision(call[r], s) \in Replied
    BY <1>4 DEF Decision, Replied
  <2>3. PosterFileExists'
    BY <1>1 DEF Inv, PosterFileExists
  <2>. QED
    BY <1>1, <2>1, <2>2, <2>3, ReplyInv DEF Inv, TypeOK, FreshIds
<1>. QED
  BY <1>3, <1>4

\* What a write does to the table: to the row that it names, if it is there.
LEMMA WriteEffect ==
  ASSUME Inv, NEW r \in Request, WriteShow(r)
  PROVE  LET h == call[r].show
         IN  /\ h \in ShowId /\ h < nextId
             /\ call[r] \in Call /\ call[r].op # "Create" /\ read[r] \in Row
             /\ \A g \in ShowId \ {h} : show'[g] = show[g]
             /\ show[h] = None => show'[h] = None
             /\ show[h] # None => show'[h] = Written(r, call[r], read[r], show[h])
<1>1. pc[r] = "write"
  BY DEF WriteShow
<1>2. call[r] \in Call /\ call[r].op # "Create" /\ call[r].show \in ShowId
  BY <1>1, CallFields DEF Inv, TypeOK, ControlOK, Working
<1>3. call[r].show < nextId /\ read[r] \in Row
  BY <1>1 DEF Inv, ReadOK, TypeOK
<1>. QED
  BY <1>2, <1>3 DEF WriteShow, Inv, TypeOK

\* So the shows that are left have the organizers they had, and posters on disk.
LEMMA WriteInv ==
  ASSUME Inv, NEW r \in Request, WriteShow(r)
  PROVE  Inv'
<1>. DEFINE h == call[r].show
<1>1. UNCHANGED <<nextId, files>>
  BY DEF WriteShow
<1>2. PICK outcome \in Replied : Reply(r, outcome)
  BY DEF WriteShow, Replied
<1>3. \A g \in ShowId : show'[g] # None =>
        /\ show[g] # None /\ show'[g] \in Row
        /\ show'[g].organizer = show[g].organizer
        /\ show'[g].poster \in {show[g].poster} \cup files
  <2>. SUFFICES ASSUME NEW g \in ShowId, show'[g] # None
                PROVE  /\ show[g] # None /\ show'[g] \in Row
                       /\ show'[g].organizer = show[g].organizer
                       /\ show'[g].poster \in {show[g].poster} \cup files
    OBVIOUS
  <2>1. CASE g # h
    <3>1. show'[g] = show[g]
      BY <2>1, WriteEffect
    <3>. QED
      BY <3>1 DEF Inv, TypeOK
  <2>2. CASE g = h
    <3>1. show[g] # None /\ show'[g] = Written(r, call[r], read[r], show[g])
      BY <2>2, WriteEffect
    <3>2. show[g] \in Row
      BY <3>1 DEF Inv, TypeOK
    <3>3. call[r].op = "UploadPoster" => r \in files
      BY DEF WriteShow, Inv, PosterSaved
    <3>. QED
      BY <3>1, <3>2, <3>3, WriteEffect, WrittenType
  <2>. QED
    BY <2>1, <2>2
<1>4. show' \in [ShowId -> Row \cup {None}]
  <2>1. DOMAIN show' = ShowId /\ show' = [g \in ShowId |-> show'[g]]
    BY DEF WriteShow, Inv, TypeOK
  <2>. QED
    BY <1>3, <2>1
<1>5. PosterFileExists'
  BY <1>1, <1>3 DEF Inv, PosterFileExists
<1>6. \A g \in ShowId : g >= nextId' => show'[g] = None
  BY <1>1, <1>3 DEF Inv, FreshIds
<1>. QED
  BY <1>1, <1>2, <1>3, <1>4, <1>5, <1>6, ReplyInv DEF Inv, TypeOK

\* A request that ends without a write leaves the tables alone.
LEMMA EndInv ==
  ASSUME Inv, NEW r \in Request, Refuse(r) \/ Fail(r)
  PROVE  Inv'
<1>1. PICK outcome \in Replied : Reply(r, outcome)
  BY DEF Refuse, Fail, Replied
<1>2. UNCHANGED <<nextId, show, files>>
  BY DEF Refuse, Fail
<1>. QED
  BY <1>1, <1>2, ReplyInv DEF Inv, TypeOK, FreshIds, PosterFileExists

\* Every step keeps the invariant.
LEMMA NextInv == Inv /\ [Next]_vars => Inv'
<1>. SUFFICES ASSUME Inv, [Next]_vars PROVE Inv'
  OBVIOUS
<1>1. ASSUME NEW r \in Request, StartCreate(r) PROVE Inv'
  <2>. PICK u \in User : Start(r, [op |-> "Create", user |-> u], "insert")
    BY <1>1 DEF StartCreate
  <2>1. [op |-> "Create", user |-> u] \in Call
    BY DEF Call
  <2>. QED
    BY <1>1, <2>1, StartInv DEF StartCreate, Inv, TypeOK
<1>2. ASSUME NEW r \in Request, StartUploadPoster(r) PROVE Inv'
  <2>. PICK u \in User, h \in ShowId :
         Start(r, [op |-> "UploadPoster", user |-> u, show |-> h], "readShow")
    BY <1>2 DEF StartUploadPoster
  <2>1. [op |-> "UploadPoster", user |-> u, show |-> h] \in Call
    BY DEF Call
  <2>2. files' = files \cup {r} /\ UNCHANGED <<nextId, show>>
    BY <1>2 DEF StartUploadPoster
  <2>. QED
    BY <2>1, <2>2, StartInv DEF Inv, TypeOK
<1>3. ASSUME NEW r \in Request, StartOther(r) PROVE Inv'
  <2>. PICK c \in Call : c.op \in {"Update", "Delete", "CancelShow", "Moderate"}
                         /\ Start(r, c, "readShow")
    BY <1>3 DEF StartOther
  <2>. QED
    BY <1>3, StartInv DEF StartOther, Inv, TypeOK
<1>4. CASE UNCHANGED vars
  BY <1>4 DEF vars, Inv, TypeOK, ControlOK, FreshIds, ReadOK, PosterSaved, PosterFileExists,
              Decision, TransitionOK
<1>. QED
  BY <1>1, <1>2, <1>3, <1>4, EndInv, InsertInv, ReadInv, WriteInv DEF Next

\* The invariant holds in every reachable state.
LEMMA Invariance == Spec => []Inv
BY InitInv, NextInv, PTL DEF Spec

\* Every variable keeps its type.
THEOREM ShowsTypeCorrect == Spec => []TypeOK
<1>1. Inv => TypeOK
  BY DEF Inv
<1>. QED
  BY <1>1, Invariance, PTL

\* The poster of a show is a file that has been saved.
THEOREM PostersExist == Spec => []PosterFileExists
<1>1. Inv => PosterFileExists
  BY DEF Inv
<1>. QED
  BY <1>1, Invariance, PTL

-----------------------------------------------------------------------------
(* What a step may do to a row. *)

\* A row changes by the INSERT of Create, under the next id, or by the write of
\* one request, which was allowed to by the row it read.
LEMMA RowChange ==
  ASSUME Inv, [Next]_vars, NEW h \in ShowId, show'[h] # show[h]
  PROVE  \/ h = nextId /\ show[h] = None
         \/ \E r \in Request :
              /\ WriteShow(r) /\ Writes(r) /\ call[r].show = h
              /\ show[h] \in Row
              /\ show'[h] = Written(r, call[r], read[r], show[h])
<1>1. ASSUME NEW r \in Request, InsertShow(r)
      PROVE  h = nextId /\ show[h] = None
  BY <1>1 DEF InsertShow, Inv, TypeOK, FreshIds
<1>2. ASSUME NEW r \in Request, WriteShow(r)
      PROVE  /\ Writes(r) /\ call[r].show = h /\ show[h] \in Row
             /\ show'[h] = Written(r, call[r], read[r], show[h])
  <2>1. Writes(r)
    BY <1>2 DEF WriteShow, Reply, Writes, Inv, TypeOK
  <2>2. call[r].show = h /\ show[h] # None
    BY <1>2, WriteEffect
  <2>. QED
    BY <1>2, <2>1, <2>2, WriteEffect DEF Inv, TypeOK
<1>. QED
  BY <1>1, <1>2
  DEF Next, vars, Refuse, StartCreate, StartUploadPoster, StartOther, ReadShow, Fail

\* Only an upload gives a show another poster.
THEOREM PostersByUpload == Spec => PosterOnlyByUpload
<1>. DEFINE Step == \A h \in ShowId :
       show[h] # None /\ show'[h] # None /\ show'[h].poster # show[h].poster =>
         \E r \in Request :
           Writes(r) /\ call[r].op = "UploadPoster" /\ show'[h].poster = r
<1>1. Inv /\ [Next]_vars => Step
  <2>. SUFFICES ASSUME Inv, [Next]_vars, NEW h \in ShowId,
                       show[h] # None, show'[h] # None, show'[h].poster # show[h].poster
                PROVE  \E r \in Request :
                         Writes(r) /\ call[r].op = "UploadPoster" /\ show'[h].poster = r
    OBVIOUS
  <2>. PICK r \in Request : /\ WriteShow(r) /\ Writes(r) /\ call[r].show = h
                            /\ show[h] \in Row
                            /\ show'[h] = Written(r, call[r], read[r], show[h])
    BY RowChange
  <2>. QED
    BY WriteEffect, WrittenType
<1>. QED
  BY <1>1, Invariance, PTL DEF Spec, PosterOnlyByUpload

\* A show that is deleted is not written again.
THEOREM DeletedIsFinal == Spec => DeletedStaysDeleted
<1>. DEFINE Step == \A h \in ShowId : show[h] = None /\ show'[h] # None => h = nextId
<1>1. Inv /\ [Next]_vars => Step
  BY RowChange, ShowsAssumption
<1>. QED
  BY <1>1, Invariance, PTL DEF Spec, DeletedStaysDeleted

\* Whoever changes a show owns it at that moment, or moderates it.
THEOREM OwnersWrite == Spec => OnlyOwnersWrite
<1>. DEFINE Step == \A h \in ShowId :
       show[h] # None /\ show'[h] # show[h] =>
         \E r \in Request :
           /\ Writes(r) /\ call[r].show = h
           /\ call[r].op = "Moderate" \/ call[r].user = show[h].organizer
<1>1. Inv /\ [Next]_vars => Step
  <2>. SUFFICES ASSUME Inv, [Next]_vars, NEW h \in ShowId,
                       show[h] # None, show'[h] # show[h]
                PROVE  \E r \in Request :
                         /\ Writes(r) /\ call[r].show = h
                         /\ call[r].op = "Moderate" \/ call[r].user = show[h].organizer
    OBVIOUS
  <2>. PICK r \in Request : WriteShow(r) /\ Writes(r) /\ call[r].show = h
    BY RowChange
  <2>1. Decision(call[r], read[r]) = "write" /\ show[h].organizer = read[r].organizer
    BY DEF Inv, ReadOK, Writes
  <2>2. call[r].op = "Moderate" \/ call[r].user = read[r].organizer
    BY <2>1 DEF Decision
  <2>. QED
    BY <2>1, <2>2
<1>. QED
  BY <1>1, Invariance, PTL DEF Spec, OnlyOwnersWrite

\* A write that finds the row as it was read makes of it what its operation
\* makes of the row read, or fails and leaves it.
LEMMA CurrentWrite ==
  ASSUME Inv, [Next]_vars, NEW r \in Request, WritesCurrent(r)
  PROVE  /\ call[r] \in Call /\ call[r].op # "Create" /\ read[r] \in Row
         /\ show[call[r].show] = read[r] /\ Decision(call[r], read[r]) = "write"
         /\ \/ show'[call[r].show] = Written(r, call[r], read[r], read[r])
            \/ show'[call[r].show] = read[r]
<1>1. /\ call[r] \in Call /\ call[r].op # "Create" /\ read[r] \in Row
      /\ show[call[r].show] = read[r] /\ Decision(call[r], read[r]) = "write"
  BY DEF WritesCurrent, Writes, Inv, TypeOK, ControlOK, ReadOK, Working
<1>2. call[r].show \in ShowId /\ read[r] # None
  BY <1>1, CallFields, ShowsAssumption
<1>3. ASSUME NEW q \in Request, WriteShow(q) PROVE q = r
  BY <1>3 DEF WriteShow, Reply, WritesCurrent, Writes, Inv, TypeOK
<1>4. CASE \E q \in Request : WriteShow(q)
  <2>1. WriteShow(r)
    BY <1>3, <1>4
  <2>. QED
    BY <1>1, <1>2, <2>1, WriteEffect
<1>5. CASE \E q \in Request : InsertShow(q)
  BY <1>1, <1>2, <1>5 DEF InsertShow, Inv, TypeOK, FreshIds, ShowId
<1>6. CASE UNCHANGED show
  BY <1>1, <1>6
<1>. QED
  BY <1>1, <1>4, <1>5, <1>6
  DEF Next, vars, Refuse, StartCreate, StartUploadPoster, StartOther, ReadShow, Fail

\* What an operation makes of the text columns of the row it read.
LEMMA WrittenTexts ==
  ASSUME NEW r \in Request, NEW c \in Call, c.op # "Create", NEW s \in Row,
         Written(r, c, s, s) # None
  PROVE  LET t == Written(r, c, s, s)
         IN  t.title \in {s.title, r} /\ t.venue \in {s.venue, r}
<1>1. CASE c.op = "Update"
  <2>. DEFINE e == Edited(r, c, s)
  <2>1. e.title \in {s.title, r} /\ e.venue \in {s.venue, r}
    BY <1>1, EditedType
  <2>2. Written(r, c, s, s) =
          [s EXCEPT !.title = e.title, !.venue = e.venue, !.status = e.status]
    BY <1>1 DEF Written
  <2>. HIDE DEF e
  <2>. QED
    BY <2>1, <2>2 DEF Row
<1>2. CASE c.op = "Delete"
  BY <1>2 DEF Written
<1>3. CASE c.op \in {"UploadPoster", "CancelShow", "Moderate"}
  BY <1>3 DEF Written, Row
<1>. QED
  BY <1>1, <1>2, <1>3, CallFields

\* A write that finds the row as it was read changes no text column but to a value
\* of its own.
THEOREM EditsAreKept == Spec => EditsSurvive
<1>. DEFINE Step == \A r \in Request :
       LET h == call[r].show
       IN  WritesCurrent(r) /\ show'[h] # None =>
             show'[h].title \in {show[h].title, r} /\ show'[h].venue \in {show[h].venue, r}
<1>1. Inv /\ [Next]_vars => Step
  <2>. SUFFICES ASSUME Inv, [Next]_vars, NEW r \in Request, WritesCurrent(r),
                       show'[call[r].show] # None
                PROVE  LET h == call[r].show
                       IN  /\ show'[h].title \in {show[h].title, r}
                           /\ show'[h].venue \in {show[h].venue, r}
    OBVIOUS
  <2>1. CASE show'[call[r].show] = Written(r, call[r], read[r], read[r])
    BY <2>1, CurrentWrite, WrittenTexts
  <2>2. CASE show'[call[r].show] = read[r]
    BY <2>2, CurrentWrite
  <2>. QED
    BY <2>1, <2>2, CurrentWrite
<1>. QED
  BY <1>1, Invariance, PTL DEF Spec, EditsSurvive

-----------------------------------------------------------------------------
(* What the writes that do not find the row as it was read may do to it.       *)

\* What a write makes of the status of any row is what its request was allowed from
\* the status it read, unless it leaves the row's status.
LEMMA WrittenStatus ==
  ASSUME NEW r \in Request, NEW c \in Call, c.op # "Create", NEW s \in Row, NEW row \in Row,
         Decision(c, s) = "write", Written(r, c, s, row) # None,
         Written(r, c, s, row).status # row.status
  PROVE  LET to == Written(r, c, s, row).status
         IN  \/ <<s.status, to>> \in Contract
             \/ c.op = "Update" /\ to = s.status
             \/ c.op = "Moderate" /\ s.status = "draft" /\ to = "cancelled"
             \/ c.op = "CancelShow" /\ to = "cancelled"
<1>0. s.status \in ShowStatus /\ row.status \in ShowStatus /\ s # None
  BY ShowsAssumption DEF Row
<1>1. CASE c.op = "Update"
  <2>1. c.status = None \/ TransitionOK(s.status, c.status)
    BY <1>0, <1>1 DEF Decision
  <2>2. Written(r, c, s, row).status = IF c.status = None THEN s.status ELSE c.status
    <3>. DEFINE e == Edited(r, c, s)
    <3>1. e.status = IF c.status = None THEN s.status ELSE c.status
      BY <1>1, EditedType
    <3>2. Written(r, c, s, row) =
            [row EXCEPT !.title = e.title, !.venue = e.venue, !.status = e.status]
      BY <1>1 DEF Written
    <3>. HIDE DEF e
    <3>. QED
      BY <3>1, <3>2 DEF Row
  <2>. QED
    BY <1>0, <1>1, <2>1, <2>2 DEF TransitionOK, ShowStatus, Contract
<1>2. CASE c.op = "Delete"
  BY <1>2 DEF Written
<1>3. CASE c.op = "UploadPoster"
  BY <1>0, <1>3 DEF Written, Row
<1>4. CASE c.op = "CancelShow"
  BY <1>0, <1>4 DEF Written, Row, ShowStatus
<1>5. CASE c.op = "Moderate"
  <2>1. s.status = "draft"
    BY <1>0, <1>5 DEF Decision
  <2>. QED
    BY <1>5, <2>1 DEF Written, Row, ShowStatus, Contract
<1>. QED
  BY <1>1, <1>2, <1>3, <1>4, <1>5, CallFields

\* However stale the row that a request has read, it changes the status of a show only
\* as it was allowed from there.
THEOREM StatusesChangeAsRead == Spec => StatusChangesAsRead
<1>. DEFINE Allowed(r, to) ==
       LET change == <<read[r].status, to>>
       IN  \/ change \in Contract
           \/ call[r].op = "Update" /\ change[1] = change[2]
           \/ call[r].op = "Moderate" /\ change = <<"draft", "cancelled">>
           \/ call[r].op = "CancelShow" /\ change[2] = "cancelled"
<1>. DEFINE Step == \A h \in ShowId :
       show[h] # None /\ show'[h] # None /\ show'[h].status # show[h].status =>
         \E r \in Request :
           LET change == <<read[r].status, show'[h].status>>
           IN  /\ Writes(r) /\ call[r].show = h
               /\ \/ change \in Contract
                  \/ call[r].op = "Update" /\ change[1] = change[2]
                  \/ call[r].op = "Moderate" /\ change = <<"draft", "cancelled">>
                  \/ call[r].op = "CancelShow" /\ change[2] = "cancelled"
<1>1. Inv /\ [Next]_vars => Step
  <2>. SUFFICES ASSUME Inv, [Next]_vars, NEW h \in ShowId,
                       show[h] # None, show'[h] # None, show'[h].status # show[h].status
                PROVE  \E r \in Request :
                         Writes(r) /\ call[r].show = h /\ Allowed(r, show'[h].status)
    OBVIOUS
  <2>. PICK r \in Request : /\ WriteShow(r) /\ Writes(r) /\ call[r].show = h
                            /\ show[h] \in Row
                            /\ show'[h] = Written(r, call[r], read[r], show[h])
    BY RowChange
  <2>1. /\ call[r] \in Call /\ call[r].op # "Create" /\ read[r] \in Row
        /\ Decision(call[r], read[r]) = "write"
    BY DEF Writes, Inv, TypeOK, ControlOK, ReadOK, Working
  <2>2. LET to == show'[h].status
        IN  \/ <<read[r].status, to>> \in Contract
            \/ call[r].op = "Update" /\ to = read[r].status
            \/ call[r].op = "Moderate" /\ read[r].status = "draft" /\ to = "cancelled"
            \/ call[r].op = "CancelShow" /\ to = "cancelled"
    BY <2>1, WrittenStatus
  <2>3. Allowed(r, show'[h].status)
    BY <2>2
  <2>. QED
    BY <2>3
<1>. QED
  BY <1>1, Invariance, PTL DEF Spec, StatusChangesAsRead
=============================================================================
