------------------------------ MODULE ItemPage ------------------------------
(***************************************************************************)
(* The page of a work item, workflow-items/[id]/page.tsx, with comments    *)
(* (comments.service.ts) and the files of Attachments behind it.  The      *)
(* page loads once, and from then on changes what it shows only by the     *)
(* answers to its own requests.  Nothing keeps its user from sending the   *)
(* next request before the last one is answered, apart from a second       *)
(* upload; colleagues work on the same item, and answers get lost.         *)
(***************************************************************************)
EXTENDS Attachments

CONSTANTS Me,       \* the user in front of the page
          Comments  \* ids of Comment rows

ASSUME PageAssumption ==
  /\ Me \in Users
  /\ Comments \cap (Files \cup Requests) = {}

VARIABLES comment,  \* how far the posting of each comment has come
          thread,   \* Comment rows
          activity, \* comments with their COMMENT_ADDED event
          phase,
          fetched,  \* the parts of a load that have been answered
          shown,    \* attachments and comments on the page
          asked,    \* the operation of the page each request is for, and its file
          awaits,   \* the requests and comments the page awaits an answer to
          reply,
          known,    \* ghost: what the page has been told is there
          gone      \* ghost: what it has been told is gone

discussion == <<comment, thread, activity>>
view == <<phase, fetched, shown, asked, awaits, reply, known, gone>>
pageVars == <<vars, discussion, view>>

Nothing == [op |-> "none", file |-> None]

\* What somebody who opens the page now is shown.
There == {f \in Files : Stored(f)} \cup thread

PageInit ==
  /\ Init
  /\ comment = [c \in Comments |-> "unsent"]
  /\ thread = {} /\ activity = {}
  /\ phase = "loading" /\ fetched = [item |-> {None}, comments |-> {None}]
  /\ shown = {}
  /\ asked = [r \in Requests |-> Nothing]
  /\ awaits = {}
  /\ reply = [x \in Requests \cup Comments |-> "none"]
  /\ known = {} /\ gone = {}

-----------------------------------------------------------------------------
(* Loading: the item, with its attachments, and the comments are read at   *)
(* different times, and are shown together or not at all.                  *)

\* The page is opened again, or left for another; what it asked goes on.
Open ==
  /\ phase' = "loading" /\ fetched' = [item |-> {None}, comments |-> {None}]
  /\ shown' = {} /\ known' = {} /\ gone' = {}
  /\ awaits' = {}
  /\ asked' = [r \in Requests |-> Nothing]
  /\ reply' = [x \in DOMAIN reply |-> "none"]
  /\ UNCHANGED <<vars, discussion>>

Fetch ==
  /\ phase = "loading"
  /\ \/ /\ fetched.item = {None}
        /\ fetched' = [fetched EXCEPT !.item = There \cap Files]
     \/ /\ fetched.comments = {None}
        /\ fetched' = [fetched EXCEPT !.comments = thread]
  /\ UNCHANGED <<vars, discussion, phase, shown, asked, awaits, reply, known, gone>>

Show ==
  /\ phase = "loading" /\ None \notin fetched.item \cup fetched.comments
  /\ phase' = "open"
  /\ shown' = fetched.item \cup fetched.comments
  /\ known' = shown'
  /\ fetched' = [item |-> {}, comments |-> {}]
  /\ UNCHANGED <<vars, discussion, asked, awaits, reply, gone>>

-----------------------------------------------------------------------------
(* What the page asks                                                      *)

Ask(r, op) ==
  /\ phase = "open" /\ asked[r] = Nothing
  /\ asked' = [asked EXCEPT ![r] = [op |-> op, file |-> call'[r].file]]
  /\ awaits' = awaits \cup {r}
  /\ UNCHANGED <<discussion, phase, fetched, reply, known, gone>>

\* The button is disabled while an upload is under way.
UploadAttachment(r) ==
  /\ \A q \in Requests : asked[q].op # "upload"
  /\ Upload(r, Me)
  /\ Ask(r, "upload")
  /\ UNCHANGED shown

\* (variant of DeleteAttachment) the file is taken off the page at once
DeleteAttachmentAtOnce(r, f) ==
  /\ f \in shown
  /\ Remove(r, f, Me)
  /\ Ask(r, "delete")
  /\ shown' = shown \ {f}

\* The service refuses a file that is gone, and the page goes on showing it.
DeleteAttachment(r, f) ==
  /\ f \in shown
  /\ Remove(r, f, Me)
  /\ Ask(r, "delete")
  /\ UNCHANGED shown

\* No button is disabled: pressed twice, it adds two comments.
AddComment(c) ==
  /\ phase = "open"
  /\ comment[c] = "unsent"
  /\ comment' = [comment EXCEPT ![c] = "sent"]
  /\ awaits' = awaits \cup {c}
  /\ UNCHANGED <<vars, thread, activity, phase, fetched, shown, asked, reply, known, gone>>

-----------------------------------------------------------------------------
(* What the service does, and answers                                      *)

\* An answer nobody waits for any more is dropped; any may get lost.
Answer(x, done) ==
  /\ IF x \in awaits
     THEN \E a \in {"error"} \cup (IF done THEN {"ok"} ELSE {}) :
            reply' = [reply EXCEPT ![x] = a]
     ELSE UNCHANGED reply
  /\ UNCHANGED <<phase, fetched, shown, asked, awaits, known, gone>>

Serve(r) ==
  /\ \/ Put(r) \/ Insert(r) \/ Compensate(r)
     \/ DeleteObject(r) \/ DeleteRow(r)
     \/ Abort(r)
  /\ IF At(r, "idle")' THEN Answer(r, rows' # rows) ELSE UNCHANGED view
  /\ UNCHANGED discussion

\* create: the item is there, then comment and event in one transaction.
CreateComment(c) ==
  /\ comment[c] = "sent"
  /\ comment' = [comment EXCEPT ![c] = "done"]
  /\ \/ /\ thread' = thread \cup {c} /\ activity' = activity \cup {c}
        /\ Answer(c, TRUE)
     \/ /\ UNCHANGED <<thread, activity>>
        /\ Answer(c, FALSE)
  /\ UNCHANGED vars

\* A colleague, or the same user in another tab.
Colleague ==
  \/ /\ \E r \in Requests :
          /\ asked[r] = Nothing
          /\ \E u \in Users : Upload(r, u) \/ \E f \in Files : Remove(r, f, u)
     /\ UNCHANGED <<discussion, view>>
  \/ /\ \E c \in Comments : comment[c] = "unsent" /\ comment' = [comment EXCEPT ![c] = "sent"]
     /\ UNCHANGED <<vars, thread, activity, view>>

-----------------------------------------------------------------------------
(* What the page does with an answer: it changes what it shows now.        *)

Heard(x) ==
  /\ reply[x] # "none"
  /\ awaits' = awaits \ {x}
  /\ reply' = [reply EXCEPT ![x] = "none"]
  /\ UNCHANGED <<vars, discussion, phase, fetched>>

HearUpload(r) ==
  /\ asked[r].op = "upload"
  /\ Heard(r)
  /\ shown' = IF reply[r] = "ok" THEN shown \cup {asked[r].file} ELSE shown
  /\ known' = IF reply[r] = "ok" THEN known \cup {asked[r].file} ELSE known
  /\ asked' = [asked EXCEPT ![r] = Nothing]
  /\ UNCHANGED gone

HearDelete(r) ==
  /\ asked[r].op = "delete"
  /\ Heard(r)
  /\ shown' = IF reply[r] = "ok" THEN shown \ {asked[r].file} ELSE shown
  /\ gone' = IF reply[r] = "ok" THEN gone \cup {asked[r].file} ELSE gone
  /\ asked' = [asked EXCEPT ![r] = Nothing]
  /\ UNCHANGED known

HearComment(c) ==
  /\ Heard(c)
  /\ shown' = IF reply[c] = "ok" THEN shown \cup {c} ELSE shown
  /\ known' = IF reply[c] = "ok" THEN known \cup {c} ELSE known
  /\ UNCHANGED <<asked, gone>>

PageNext ==
  \/ Open \/ Fetch \/ Show \/ Colleague
  \/ \E r \in Requests :
       \/ UploadAttachment(r)
       \/ \E f \in Files : DeleteAttachment(r, f)
       \/ Serve(r)
       \/ HearUpload(r) \/ HearDelete(r)
       \/ Refuse(r) /\ UNCHANGED <<discussion, view>>
  \/ \E c \in Comments : AddComment(c) \/ CreateComment(c) \/ HearComment(c)

PageSpec == PageInit /\ [][PageNext]_pageVars

-----------------------------------------------------------------------------
(* Properties                                                              *)

(* In whatever order its requests are answered, and whatever colleagues do *)
(* meanwhile, the page shows nothing it was not told of, everything it was *)
(* told of that is still there, and nothing it was told is gone; what it   *)
(* was told of has been there, and a comment has its event in the history. *)
PageKeepsUp ==
  /\ shown \subseteq known
  /\ known \cap There \subseteq shown
  /\ gone \cap (shown \cup There) = {}
  /\ \A f \in known \cap Files : row[f].status # "ABSENT"
  /\ known \cap Comments \subseteq thread
  /\ activity = thread
=============================================================================
