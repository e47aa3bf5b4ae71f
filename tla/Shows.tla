------------------------------- MODULE Shows -------------------------------
(***************************************************************************)
(* The life of a show: ShowService (Create, Update, Delete, UploadPoster,   *)
(* CancelShow) and adminService.ModerateShow over PgShowRepo.              *)
(*                                                                         *)
(* Every operation but Create first reads the show with GetByID, decides   *)
(* on what it read, and then writes with one statement that looks at the   *)
(* id alone.  Between the two, other requests write the same row.  The     *)
(* bookings and seats that CancelShow writes in its transaction are in     *)
(* module Bookings; here it is the one write of shows.status it commits.   *)
(*                                                                         *)
(* A request runs once, and the value of a text column is the request that  *)
(* set it; venue stands for starts_at as well, which is read, checked and   *)
(* written in the same way.                                                *)
(***************************************************************************)
EXTENDS Naturals

CONSTANTS
  Request,  \* the HTTP requests
  User,     \* the authenticated callers
  Ops,      \* the operations the clients use
  MaxShow,  \* a bound of the instance: the shows ever created
  None      \* no row, no request, no value

ShowId == 1..MaxShow

AllOps == {"Create", "Update", "Delete", "UploadPoster", "CancelShow", "Moderate"}

ShowStatus == {"draft", "published", "cancelled"}

Row == [organizer : User, title : Request, venue : Request,
        status : ShowStatus, poster : Request \cup {None}]

\* The fields an UpdateShowInput brings; "bad" stands for one that is refused,
\* an empty title or venue or a start in the past.
Fields == SUBSET {"title", "venue"} \cup {{"bad"}}

Call == [op : {"Create"}, user : User]
   \cup [op : {"Update"}, user : User, show : ShowId,
         status : ShowStatus \cup {None}, fields : Fields]
   \cup [op : {"Delete", "UploadPoster", "CancelShow"}, user : User, show : ShowId]
   \cup [op : {"Moderate"}, show : ShowId, action : {"approve", "reject"}]

ASSUME ShowsAssumption ==
  /\ Ops \subseteq AllOps
  /\ MaxShow \in Nat
  /\ None \notin Request \cup ShowStatus \cup Row \cup Call

VARIABLES
  nextId,  \* the sequence behind shows.id
  show,    \* show[h]: the row of shows with id h, or None
  files,   \* the poster files on disk, named after the request that saved them
  call,    \* call[r]: what request r asks for; None before and after it runs
  pc,      \* pc[r]: the next step of request r, or its outcome
  read     \* read[r]: the row as GetByID of r read it, or None

vars == <<nextId, show, files, call, pc, read>>

Working == {"insert", "readShow", "write"}
Replied == {"ok", "ErrNotFound", "ErrForbidden", "ErrInvalid", "error"}

\* The columns and locals, and nothing else.
TypeOK ==
  /\ nextId \in 1..(MaxShow + 1)
  /\ show \in [ShowId -> Row \cup {None}]
  /\ files \subseteq Request
  /\ call \in [Request -> Call \cup {None}]
  /\ pc \in [Request -> {"new"} \cup Working \cup Replied]
  /\ read \in [Request -> Row \cup {None}]

Init ==
  /\ nextId = 1
  /\ show = [h \in ShowId |-> None]
  /\ files = {}
  /\ call = [r \in Request |-> None]
  /\ pc = [r \in Request |-> "new"]
  /\ read = [r \in Request |-> None]

-----------------------------------------------------------------------------
(* The decisions of the services. *)

\* Mutant: a published show may be taken back.
TransitionOKUnpublish(from, to) ==
  \/ from = "draft" /\ to \in {"draft", "published"}
  \/ from = "published" /\ to \in ShowStatus
  \/ from = "cancelled" /\ to = "cancelled"

\* The switch of Update on the status that was read and the one asked for.
TransitionOK(from, to) ==
  \/ from = "draft" /\ to \in {"draft", "published"}
  \/ from = "published" /\ to \in {"published", "cancelled"}
  \/ from = "cancelled" /\ to = "cancelled"

\* Mutant: the status is copied even when the input has none.
EditedAlways(r, c, s) ==
  [s EXCEPT !.status = c.status,
            !.title  = IF "title" \in c.fields THEN r ELSE @,
            !.venue  = IF "venue" \in c.fields THEN r ELSE @]

\* The show in memory after Update has put the fields of the input c into s.
Edited(r, c, s) ==
  [s EXCEPT !.status = IF c.status = None THEN @ ELSE c.status,
            !.title  = IF "title" \in c.fields THEN r ELSE @,
            !.venue  = IF "venue" \in c.fields THEN r ELSE @]

\* Mutant: nobody asks who the organizer is.
DecisionAnyUser(c, s) ==
  IF s = None THEN "ErrNotFound"
  ELSE IF c.op = "Moderate" /\ s.status # "draft" THEN "ErrInvalid"
  ELSE IF c.op = "Update" /\ c.status # None /\ ~TransitionOK(s.status, c.status)
    THEN "ErrInvalid"
  ELSE IF c.op = "Update" /\ "bad" \in c.fields THEN "ErrInvalid"
  ELSE "write"

\* What the service answers to call c after reading show s, "write" to go on.
Decision(c, s) ==
  IF s = None THEN "ErrNotFound"
  ELSE IF c.op # "Moderate" /\ s.organizer # c.user THEN "ErrForbidden"
  ELSE IF c.op = "Moderate" /\ s.status # "draft" THEN "ErrInvalid"
  ELSE IF c.op = "Update" /\ c.status # None /\ ~TransitionOK(s.status, c.status)
    THEN "ErrInvalid"
  ELSE IF c.op = "Update" /\ "bad" \in c.fields THEN "ErrInvalid"
  ELSE "write"

\* Mutants: Update writes the poster it read as well, or swaps two columns.
WrittenWithPoster(r, c, s, row) ==
  CASE c.op = "Update" -> Edited(r, c, s)
    [] c.op = "Delete" -> None
    [] c.op = "UploadPoster" -> [row EXCEPT !.poster = r]
    [] c.op = "CancelShow" -> [row EXCEPT !.status = "cancelled"]
    [] c.op = "Moderate" -> [row EXCEPT !.status = IF c.action = "approve"
                                                   THEN "published" ELSE "cancelled"]
WrittenSwapped(r, c, s, row) ==
  LET m == Edited(r, c, s)
  IN  IF c.op = "Update"
      THEN [row EXCEPT !.title = m.venue, !.venue = m.title, !.status = m.status]
      ELSE WrittenWithPoster(r, c, s, row)

\* What the statement of request r, which asked for c and read the show as s,
\* makes of the row.  Update writes every column but the poster, whether or not
\* the input had it.
Written(r, c, s, row) ==
  CASE c.op = "Update" -> [row EXCEPT !.title  = Edited(r, c, s).title,
                                      !.venue  = Edited(r, c, s).venue,
                                      !.status = Edited(r, c, s).status]
    [] c.op = "Delete" -> None
    [] c.op = "UploadPoster" -> [row EXCEPT !.poster = r]
    [] c.op = "CancelShow" -> [row EXCEPT !.status = "cancelled"]
    [] c.op = "Moderate" -> [row EXCEPT !.status = IF c.action = "approve"
                                                   THEN "published" ELSE "cancelled"]

-----------------------------------------------------------------------------
(* The steps of a request. *)

\* The request is answered and forgets its locals.
Reply(r, outcome) ==
  /\ pc' = [pc EXCEPT ![r] = outcome]
  /\ call' = [call EXCEPT ![r] = None]
  /\ read' = [read EXCEPT ![r] = None]

\* Request r asks for c and goes on at step p.
Start(r, c, p) ==
  /\ c.op \in Ops
  /\ pc[r] = "new"
  /\ call' = [call EXCEPT ![r] = c]
  /\ pc' = [pc EXCEPT ![r] = p]
  /\ UNCHANGED read

\* The request is refused before anything is read: its body does not parse, a
\* field of Create is empty or in the past, or the poster is not a small image.
Refuse(r) ==
  /\ pc[r] = "new"
  /\ Reply(r, "ErrInvalid")
  /\ UNCHANGED <<nextId, show, files>>

StartCreate(r) ==
  /\ \E u \in User : Start(r, [op |-> "Create", user |-> u], "insert")
  /\ UNCHANGED <<nextId, show, files>>

\* Mutant: the poster is saved later.
StartUploadPosterUnsaved(r) ==
  /\ \E u \in User, h \in ShowId :
       /\ Start(r, [op |-> "UploadPoster", user |-> u, show |-> h], "readShow")
  /\ UNCHANGED <<nextId, show, files>>

\* The handler saves the poster before anybody asks whose show it is.
StartUploadPoster(r) ==
  /\ \E u \in User, h \in ShowId :
       /\ Start(r, [op |-> "UploadPoster", user |-> u, show |-> h], "readShow")
  /\ files' = files \cup {r}
  /\ UNCHANGED <<nextId, show>>

StartOther(r) ==
  /\ \E c \in Call :
       /\ c.op \in {"Update", "Delete", "CancelShow", "Moderate"}
       /\ Start(r, c, "readShow")
  /\ UNCHANGED <<nextId, show, files>>

\* INSERT INTO shows: a draft without a poster, under the next id.
InsertShow(r) ==
  /\ pc[r] = "insert"
  /\ nextId <= MaxShow
  /\ nextId' = nextId + 1
  /\ show' = [show EXCEPT ![nextId] =
                [organizer |-> call[r].user, title |-> r, venue |-> r,
                 status |-> "draft", poster |-> None]]
  /\ \E outcome \in {"ok", "error"} : Reply(r, outcome)
  /\ UNCHANGED files

\* GetByID, the owner test, and the tests of the operation.
ReadShow(r) ==
  LET s == show[call[r].show]
  IN  /\ pc[r] = "readShow"
      /\ \/ /\ Decision(call[r], s) = "write"
            /\ read' = [read EXCEPT ![r] = s]
            /\ pc' = [pc EXCEPT ![r] = "write"]
            /\ UNCHANGED call
         \/ /\ Decision(call[r], s) # "write"
            /\ Reply(r, Decision(call[r], s))
      /\ UNCHANGED <<nextId, show, files>>

\* Mutant: an INSERT ... ON CONFLICT takes the place of the UPDATE.
WriteShowUpsert(r) ==
  LET h == call[r].show
      row == IF show[h] = None THEN read[r] ELSE show[h]
  IN  /\ pc[r] = "write"
      /\ show' = [show EXCEPT ![h] = Written(r, call[r], read[r], row)]
      /\ \E outcome \in {"ok", "error"} : Reply(r, outcome)
      /\ UNCHANGED <<nextId, files>>

\* The UPDATE or DELETE, and the test of the number of rows it reached.  The
\* answer of the database may be lost.
WriteShow(r) ==
  LET h == call[r].show
  IN  /\ pc[r] = "write"
      /\ \/ /\ show[h] # None
            /\ show' = [show EXCEPT ![h] = Written(r, call[r], read[r], @)]
            /\ \E outcome \in {"ok", "error"} : Reply(r, outcome)
         \/ /\ show[h] = None
            /\ Reply(r, "ErrNotFound")
            /\ UNCHANGED show
      /\ UNCHANGED <<nextId, files>>

\* A statement fails (a DELETE, also because seats or bookings refer to the
\* show), the file cannot be written, or the client goes away.
Fail(r) ==
  /\ pc[r] \in Working
  /\ Reply(r, "error")
  /\ UNCHANGED <<nextId, show, files>>

Next ==
  \E r \in Request :
    \/ Refuse(r) \/ StartCreate(r) \/ StartUploadPoster(r) \/ StartOther(r)
    \/ InsertShow(r) \/ ReadShow(r) \/ WriteShow(r) \/ Fail(r)

Spec == Init /\ [][Next]_vars

-----------------------------------------------------------------------------
(* Safety, whatever the clients do. *)

\* A show never names a poster that is not on disk: the handler saves the file
\* first and writes poster_path last.
PosterFileExists ==
  \A h \in ShowId : show[h] # None /\ show[h].poster # None => show[h].poster \in files

\* The request whose write is the step.
Writes(r) == pc[r] = "write" /\ pc'[r] # "write"

\* A poster is replaced only by the upload of another: an Update that read the
\* show before the upload and writes it after does not bring the old one back.
PosterOnlyByUpload ==
  [][\A h \in ShowId :
       show[h] # None /\ show'[h] # None /\ show'[h].poster # show[h].poster =>
         \E r \in Request :
           Writes(r) /\ call[r].op = "UploadPoster" /\ show'[h].poster = r]_vars

\* A deleted show does not come back with a write that was decided before.
DeletedStaysDeleted ==
  [][\A h \in ShowId : show[h] = None /\ show'[h] # None => h = nextId]_vars

\* Only the organizer and the moderators change a show, though the owner is
\* tested in one statement and the row is written in another.
OnlyOwnersWrite ==
  [][\A h \in ShowId :
       show[h] # None /\ show'[h] # show[h] =>
         \E r \in Request :
           /\ Writes(r) /\ call[r].show = h
           /\ call[r].op = "Moderate" \/ call[r].user = show[h].organizer]_vars

\* The changes of status that the documents know.
Contract == {<<"draft", "published">>, <<"published", "cancelled">>}

\* Every change of a show's status, by however stale a write, is one that its request
\* was allowed from the status it read: a change of the contract, no change, the
\* rejection of a draft, or CancelShow, which asks for no status and so cancels drafts
\* too, which is not in the contract.  Hence a show that is published is at most
\* cancelled, and one that is cancelled is left alone, by a request that read its
\* status after the last change.
StatusChangesAsRead ==
  [][\A h \in ShowId :
       show[h] # None /\ show'[h] # None /\ show'[h].status # show[h].status =>
         \E r \in Request :
           LET change == <<read[r].status, show'[h].status>>
           IN  /\ Writes(r) /\ call[r].show = h
               /\ \/ change \in Contract
                  \/ call[r].op = "Update" /\ change[1] = change[2]
                  \/ call[r].op = "Moderate" /\ change = <<"draft", "cancelled">>
                  \/ call[r].op = "CancelShow" /\ change[2] = "cancelled"]_vars

-----------------------------------------------------------------------------
(* Safety of the writes that find the show as it was read. *)

\* Request r writes the row it has read: nobody has written it in between.
WritesCurrent(r) == Writes(r) /\ show[call[r].show] = read[r]

\* An edit of one field leaves what others wrote to the other: a text column
\* changes only to a value that the writing request brought.
EditsSurvive ==
  [][\A r \in Request :
       LET h == call[r].show
       IN  WritesCurrent(r) /\ show'[h] # None =>
             show'[h].title \in {show[h].title, r} /\ show'[h].venue \in {show[h].venue, r}]_vars

-----------------------------------------------------------------------------
(* What the documents say, and racing requests do not respect. *)

\* "draft -> published -> cancelled": a cancelled show stays cancelled.
CancelledIsFinal ==
  [][\A h \in ShowId :
       show[h] # None /\ show'[h] # None /\ show[h].status = "cancelled" =>
         show'[h].status = "cancelled"]_vars
=============================================================================
