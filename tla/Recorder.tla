------------------------------- MODULE Recorder -------------------------------
(***************************************************************************)
(* What is kept of what a person did while they held the session           *)
(* (src/surface/web_handoff.py, started and stopped by src/replay/         *)
(* escalate.py).  A run hands its session over more than once; every time  *)
(* a new recorder is put on the same page, while the person may already be *)
(* at work.  What the page reports reaches Python only while Python is     *)
(* inside the driver, in the order in which it happened.                   *)
(***************************************************************************)
EXTENDS Naturals, Sequences, FiniteSets

CONSTANTS
  Main,          \* the page's own frame
  Children,      \* frames in it
  Urls,          \* where a frame can be
  Handoffs,      \* how often the session is handed over
  MaxActs,       \* bound on clicks and inputs in the page
  MaxMoves       \* bound on navigations

ASSUME FramesAssumption == Main \notin Children
ASSUME UrlsAssumption == Urls # {}
ASSUME BoundsAssumption == Handoffs \in Nat /\ MaxActs \in Nat /\ MaxMoves \in Nat

Absent == "no frame"
Nobody == 0
Frames == {Main} \cup Children

VARIABLES
  docs,          \* frame -> the document in it: its URL, its recorder listeners
  bound,         \* the recorder behind window.__cuaRecord
  heeding,       \* the recorders that hear of navigations
  queue,         \* what the page reported and the driver has not dispatched
  round,         \* the handoff under way, or the last one
  pc,            \* where the run is
  todo,          \* frames start has yet to instrument
  log,           \* recorder -> _actions
  written,       \* handoff -> its human-actions.jsonl
  resumed,       \* has the person given the session back
  acts,          \* history: who clicked or typed, and in which handoff
  late,          \* history: frames whose document no start under way or done found
  seen,          \* history: the acts in documents it found, once it had started
  moves          \* history: navigations so far, and the one of the main frame heeded last

pageVars == <<docs, bound>>
recorderVars == <<heeding, log>>
runVars == <<round, pc, todo, written>>
history == <<acts, late, seen, moves>>
vars == <<pageVars, recorderVars, queue, runVars, resumed, history>>

Rounds == 1 .. Handoffs
NoUrl == "never"

Acted(id) == [kind |-> "act", id |-> id, url |-> NoUrl]
Navigated(url) == [kind |-> "navigate", id |-> 0, url |-> url]

Reports == [kind : {"act", "navigate"}, id : Nat, url : Urls \cup {NoUrl}]
Deeds == [by : {"person", "automation"}, in : 0 .. Handoffs]

TypeOK ==
  /\ docs \in [Frames -> [url : Urls \cup {Absent}, listeners : 0 .. 1]]
  /\ bound \in Rounds \cup {Nobody}
  /\ heeding \subseteq Rounds /\ Cardinality(heeding) <= 1
  /\ round \in 0 .. Handoffs
  /\ pc \in {"driving", "exposing", "scripting", "evaluating", "heeding", "pumping", "polling",
             "stopping", "over"}
  /\ todo \subseteq Frames
  /\ resumed \in BOOLEAN
  /\ queue \in Seq(Reports)
  /\ log \in [Rounds -> Seq(Reports)] /\ written \in [Rounds -> Seq(Reports)]
  /\ acts \in Seq(Deeds) /\ Len(acts) <= MaxActs
  /\ late \subseteq Frames /\ seen \subseteq DOMAIN acts
  /\ moves \in [made : 0 .. MaxMoves, last : Urls \cup {NoUrl}]

Init ==
  /\ docs \in [Frames -> [url : Urls \cup {Absent}, listeners : {0}]]
  /\ docs[Main].url # Absent
  /\ bound = Nobody
  /\ heeding = {}
  /\ queue = <<>>
  /\ round = 0
  /\ pc = "driving"
  /\ todo = {}
  /\ log = [r \in Rounds |-> <<>>]
  /\ written = [r \in Rounds |-> <<>>]
  /\ resumed = FALSE
  /\ acts = <<>>
  /\ late = Frames
  /\ seen = {}
  /\ moves = [made |-> 0, last |-> NoUrl]

-------------------------------------------------------------------------------
(***************************************************************************)
(* The page                                                                *)
(***************************************************************************)
\* Variant of Install without the flag in the document.
InstallAgain(document) == [document EXCEPT !.listeners = @ + 1]

\* _RECORDER_JS called in a document, which an earlier handoff may have reached.
Install(document) == [document EXCEPT !.listeners = 1]

\* A document just loaded.  The init script is the same text, a function that
\* nothing in a new document calls.
Loaded(url) == [url |-> url, listeners |-> 0]

\* Who has the session: from the request on the person, until they resume.  A
\* run nobody resumed in time ends.
PersonHolds == pc \notin {"driving", "over"} /\ ~resumed
AutomationHolds == pc = "driving" /\ (round = 0 \/ resumed)

\* Somebody clicks or types in a frame: each listener there calls the binding.
ActIn(frame) ==
  /\ Len(acts) < MaxActs
  /\ docs[frame].url # Absent
  /\ \/ PersonHolds /\ acts' = Append(acts, [by |-> "person", in |-> round])
     \/ AutomationHolds /\ acts' = Append(acts, [by |-> "automation", in |-> round])
  /\ seen' = IF pc \in {"pumping", "polling"} /\ frame \notin late
             THEN seen \cup {Len(acts')} ELSE seen
  /\ queue' = IF bound = Nobody THEN queue
              ELSE queue \o [k \in 1 .. docs[frame].listeners |-> Acted(Len(acts'))]
  /\ UNCHANGED <<pageVars, recorderVars, runVars, resumed, late, moves>>

\* What the driver reports of a frame that moved: of all of them it is told, the
\* page's own is of interest (_on_navigation).  A run that is over closed its page.
Moved(frame, url) ==
  /\ pc # "over"
  /\ moves.made < MaxMoves
  /\ queue' = IF frame = Main THEN Append(queue, Navigated(url)) ELSE queue
  /\ moves' = [made |-> moves.made + 1,
               last |-> IF frame = Main THEN url ELSE moves.last]

\* A frame loads another document, or the same once more: the person went
\* there, or automation, or what automation did last was slow to answer.  Its
\* children go with it.
Navigate(frame, url) ==
  /\ Moved(frame, url)
  /\ frame # Main => docs[Main].url # Absent
  /\ docs' = [f \in Frames |->
       IF f = frame THEN Loaded(url)
       ELSE IF frame = Main THEN [url |-> Absent, listeners |-> 0] ELSE docs[f]]
  /\ late' = late \cup ((IF frame = Main THEN Frames ELSE {frame}) \ todo)
  /\ UNCHANGED <<bound, recorderVars, runVars, resumed, acts, seen>>

\* The page moves within its document: to a fragment, or by the history API.
MoveWithin(url) ==
  /\ Moved(Main, url)
  /\ docs[Main].url # Absent
  /\ docs' = [docs EXCEPT ![Main].url = url]
  /\ UNCHANGED <<bound, recorderVars, runVars, resumed, acts, late, seen>>

Resume ==
  /\ PersonHolds
  /\ resumed' = TRUE
  /\ UNCHANGED <<pageVars, recorderVars, queue, runVars, history>>

(***************************************************************************)
(* The recorder                                                            *)
(***************************************************************************)
\* Variant of Repeated that looks for the place anywhere in the log.
RepeatedAnywhere(actions, url) == \E k \in DOMAIN actions : actions[k] = Navigated(url)

\* A navigation to where the one just before it went is one navigation.
Repeated(actions, url) ==
  actions # <<>> /\ actions[Len(actions)] = Navigated(url)

\* The driver dispatches a report: a click to the recorder behind the binding,
\* a navigation to those that listen for them.
Dispatch ==
  /\ queue # <<>>
  /\ pc \notin {"polling", "stopping", "over"}
  /\ LET report == Head(queue)
         to == IF report.kind = "act" THEN {bound} ELSE heeding
     IN log' = [r \in Rounds |->
          IF r \notin to \/ (report.kind = "navigate" /\ Repeated(log[r], report.url))
          THEN log[r] ELSE Append(log[r], report)]
  /\ queue' = Tail(queue)
  /\ UNCHANGED <<pageVars, heeding, runVars, resumed, history>>

\* The request is on disk: the person may start, while the recorder does.
Announce ==
  /\ AutomationHolds
  /\ round < Handoffs
  /\ round' = round + 1
  /\ resumed' = FALSE
  /\ pc' = "exposing"
  /\ UNCHANGED <<pageVars, recorderVars, queue, todo, written, history>>

\* Variant of ExposeBinding that takes the name over.
ExposeBindingAnew ==
  /\ pc = "exposing"
  /\ bound' = round
  /\ pc' = "scripting"
  /\ UNCHANGED <<docs, recorderVars, queue, round, todo, written, resumed, history>>

\* A page exposes a name once; a second time it raises, which is suppressed.
ExposeBinding ==
  /\ pc = "exposing"
  /\ bound' = IF bound = Nobody THEN round ELSE bound
  /\ pc' = "scripting"
  /\ UNCHANGED <<docs, recorderVars, queue, round, todo, written, resumed, history>>

\* Variant of AddInitScript that goes through the top document only.
AddInitScriptOnTop ==
  /\ pc = "scripting"
  /\ todo' = {Main}
  /\ late' = {}
  /\ pc' = "evaluating"
  /\ UNCHANGED <<pageVars, recorderVars, queue, round, written, resumed, acts, seen, moves>>

\* The init script changes no document; then the frames there are.
AddInitScript ==
  /\ pc = "scripting"
  /\ todo' = {f \in Frames : docs[f].url # Absent}
  /\ late' = {}
  /\ pc' = "evaluating"
  /\ UNCHANGED <<pageVars, recorderVars, queue, round, written, resumed, acts, seen, moves>>

\* Into whatever document the frame has by now; one that is gone fails, and is
\* passed over.
EvaluateInFrame ==
  /\ pc = "evaluating"
  /\ \E f \in todo :
       /\ todo' = todo \ {f}
       /\ docs' = IF docs[f].url = Absent THEN docs ELSE [docs EXCEPT ![f] = Install(@)]
  /\ pc' = IF todo' = {} THEN "heeding" ELSE "evaluating"
  /\ UNCHANGED <<bound, recorderVars, queue, round, written, resumed, history>>

HeedNavigations ==
  /\ pc = "heeding"
  /\ heeding' = heeding \cup {round}
  /\ pc' = "pumping"
  /\ moves' = [moves EXCEPT !.last = NoUrl]
  /\ UNCHANGED <<pageVars, log, queue, round, todo, written, resumed, acts, late, seen>>

\* wait_for_resume: the driver is left to read the lease, and entered again.
ReadLease ==
  /\ pc = "pumping"
  /\ pc' = "polling"
  /\ UNCHANGED <<pageVars, recorderVars, queue, round, todo, written, resumed, history>>

PumpAgain ==
  /\ pc = "polling"
  /\ ~resumed
  /\ pc' = "pumping"
  /\ UNCHANGED <<pageVars, recorderVars, queue, round, todo, written, resumed, history>>

\* The session came back, or nobody returned it in time.
WaitEnds ==
  /\ pc = "polling"
  /\ pc' = "stopping"
  /\ late' = Frames
  /\ UNCHANGED <<pageVars, recorderVars, queue, round, todo, written, resumed, acts, seen, moves>>

\* A lease that cannot be read ends the run, past _stop_recorder.
WaitRaises ==
  /\ pc = "polling"
  /\ pc' = "over"
  /\ UNCHANGED <<pageVars, recorderVars, queue, round, todo, written, resumed, history>>

\* Variant of Stop that leaves the recorder listening.
StopListeningOn ==
  /\ pc = "stopping"
  /\ written' = [written EXCEPT ![round] = log[round]]
  /\ pc' = "driving"
  /\ UNCHANGED <<pageVars, recorderVars, queue, round, todo, resumed, history>>

\* stop detaches what it can, and what was seen is written beside the request.
\* The binding and the listeners stay in the page.
Stop ==
  /\ pc = "stopping"
  /\ heeding' = heeding \ {round}
  /\ written' = [written EXCEPT ![round] = log[round]]
  /\ pc' = "driving"
  /\ UNCHANGED <<pageVars, log, queue, round, todo, resumed, history>>

Next ==
  \/ \E f \in Frames : ActIn(f)
  \/ \E f \in Frames, u \in Urls : Navigate(f, u)
  \/ \E u \in Urls : MoveWithin(u)
  \/ Resume \/ Dispatch
  \/ Announce \/ ExposeBinding \/ AddInitScript \/ EvaluateInFrame \/ HeedNavigations
  \/ ReadLease \/ PumpAgain \/ WaitEnds \/ WaitRaises \/ Stop

Spec == Init /\ [][Next]_vars

-------------------------------------------------------------------------------
(***************************************************************************)
(* Properties                                                              *)
(***************************************************************************)
Waiting == pc \in {"pumping", "polling"}

\* Once the recorder has started, every document it found in the page reports,
\* and reports once, for as long as it stays: also in a child frame, one that
\* loaded while the frames were gone through, and one an earlier handoff had
\* reached.  (start, _RECORDER_JS)
DocumentsFoundReport ==
  Waiting => \A f \in Frames \ late : docs[f].url # Absent => docs[f].listeners = 1

\* Where in a list something that was done is told, and a navigation.
ActsIn(list) == {k \in DOMAIN list : list[k].kind = "act"}
NavigationsIn(list) == {k \in DOMAIN list : list[k].kind = "navigate"}

\* What is written of a handoff is what a person did in that handoff and not
\* what automation did, each click and each value once, in order.
WrittenIsTheirs ==
  \A r \in Rounds :
    /\ \A k \in ActsIn(written[r]) : acts[written[r][k].id] = [by |-> "person", in |-> r]
    /\ \A j, k \in ActsIn(written[r]) : j < k => written[r][j].id < written[r][k].id

\* Is an act in the list of a recorder, or about to be.
HeardBy(r, id) ==
  \/ \E k \in ActsIn(log[r]) : log[r][k].id = id
  \/ \E k \in ActsIn(queue) : queue[k].id = id

\* Nothing a person does, in the first handoff, to a document its recorder found
\* is lost on the way once it has started: it is in the recorder's list, or about
\* to be.
FoundIsHeardAtFirst ==
  \A id \in seen : acts[id].in = 1 => HeardBy(1, id)

\* Where the page went during a handoff is where the recorder's last navigation
\* says, as soon as it has been told.  ("where did they end up", web_handoff.py:19)
EndsWhereTheyEnded ==
  Waiting /\ NavigationsIn(queue) = {} /\ moves.last # NoUrl =>
    \E k \in NavigationsIn(log[round]) :
      /\ log[round][k].url = docs[Main].url
      /\ \A j \in NavigationsIn(log[round]) : j <= k

(***************************************************************************)
(* What the documentation says and the code does not do.                   *)
(***************************************************************************)
\* web_handoff.py:12-15: the listener is installed "both on the current document
\* and, through an init script, on every document the operator navigates to
\* afterwards".
EveryDocumentReports ==
  Waiting => \A f \in Frames : docs[f].url # Absent => docs[f].listeners = 1

\* web_handoff.py:99-100 of a binding that is there already: "a second take must
\* not fail because of it".  So what is done in any handoff, to a document its
\* recorder found, is heard by that recorder.
EveryHandoffIsHeard ==
  \A id \in seen : HeardBy(acts[id].in, id)
===============================================================================
