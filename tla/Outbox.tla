------------------------------- MODULE Outbox -------------------------------
(***************************************************************************)
(* Telegram notifications: the controller of each run leaves a notice in   *)
(* telegram_notify.json, which it overwrites; a bridge per bot lists the   *)
(* notices of every run, sends their messages one by one and records each  *)
(* answer under .approval.lock.  A bridge works on the payloads it listed, *)
(* so a notice may be replaced while its messages are being sent.  Module  *)
(* Chunks divides the summary of an approved run into messages.            *)
(***************************************************************************)
EXTENDS Chunks, FiniteSets

CONSTANTS
  MaxRun,      \* runs are 1..MaxRun, in the order of their paths
  Refused,     \* runs whose messages the Telegram API always refuses
  Bridges,     \* notifier processes of one bot
  Reports,     \* what a summary can look like
  MaxNotices,  \* bound on the notices of a run
  MaxTrouble   \* bound on bridge crashes and lost answers together

Runs == 1..MaxRun

ASSUME OutboxConstantsAssumption ==
  /\ MaxRun \in Nat \ {0} /\ Refused \subseteq Runs
  /\ MaxNotices \in Nat /\ MaxTrouble \in Nat
  /\ "none" \notin Bridges
  /\ IsFiniteSet(Reports) /\ Reports \subseteq Seq(Nat)

VARIABLES
  status,      \* state.json of each run
  controller,  \* what the process of each run is doing
  outbox,      \* telegram_notify.json of each run
  notices,     \* how many notices each run has had: the last id
  bridge,
  botLock,     \* the bridge that holds the lock of the bot
  delivered,   \* history: how often the chat received each message
  trouble      \* history: bridge crashes and lost answers

runs == <<status, controller, notices>>
vars == <<runs, outbox, bridge, botLock, delivered, trouble>>

Kinds == {"approved", "failure"}
Ids == 1..MaxNotices

(* How many parts a summary may have, and for each number which messages   *)
(* show a line that fits: what the outbox has to know of a report.         *)
Parts == {Len(Split(report)) : report \in Reports}
Showing ==
  [n \in Parts |->
     UNION {{ShownBy(report, i) : i \in {i \in DOMAIN report : Fits(report, i)}} :
              report \in {q \in Reports : Len(Split(q)) = n}}]

(* An approval has the parts of its summary and a suggested commit. *)
Messages(notice) == IF notice.kind = "approved" THEN notice.parts + 1 ELSE 1
MaxMessages == Max(Parts \cup {0}) + 1

NoNotice ==
  [id |-> 0, kind |-> "failure", parts |-> 0, sent |-> 0, done |-> TRUE]
Notices ==
  [id : 0..MaxNotices, kind : Kinds, parts : Parts \cup {0},
   sent : 0..MaxMessages, done : BOOLEAN]

Off == [pc |-> "off", listed |-> [r \in Runs |-> NoNotice]]

Init ==
  /\ status = [r \in Runs |-> "running"]
  /\ controller = [r \in Runs |-> "working"]
  /\ outbox = [r \in Runs |-> NoNotice]
  /\ notices = [r \in Runs |-> 0]
  /\ bridge = [b \in Bridges |-> Off]
  /\ botLock = "none"
  /\ delivered = [r \in Runs |-> [i \in Ids |-> [m \in 1..MaxMessages |-> 0]]]
  /\ trouble = 0

-----------------------------------------------------------------------------
(* The controller of a run *)

Conclude(r, new, next) ==
  /\ controller[r] = "working" /\ notices[r] < MaxNotices
  /\ status' = [status EXCEPT ![r] = new]
  /\ controller' = [controller EXCEPT ![r] = next]
  /\ UNCHANGED <<notices, outbox, bridge, botLock, delivered, trouble>>

Block(r) == Conclude(r, "BLOCKED", "failure")
Approve(r) == Conclude(r, "APPROVED", "approved")

(* enqueue_notification: a notice that was not sent yet is overwritten. *)
Enqueue(r) ==
  /\ controller[r] \in Kinds
  /\ notices' = [notices EXCEPT ![r] = @ + 1]
  /\ \E n \in IF controller[r] = "approved" THEN Parts ELSE {0} :
       outbox' = [outbox EXCEPT
         ![r] = [id |-> notices[r] + 1, kind |-> controller[r], parts |-> n,
                 sent |-> 0, done |-> FALSE]]
  /\ controller' = [controller EXCEPT ![r] = "gone"]
  /\ UNCHANGED <<status, bridge, botLock, delivered, trouble>>

(* The controller is killed, also between its verdict and its notice. *)
Die(r) ==
  /\ controller[r] # "gone"
  /\ controller' = [controller EXCEPT ![r] = "gone"]
  /\ UNCHANGED <<status, notices, outbox, bridge, botLock, delivered, trouble>>

(* Resuming an approved run verifies its snapshot and does nothing else. *)
Resume(r) ==
  /\ controller[r] = "gone" /\ status[r] # "APPROVED"
  /\ status' = [status EXCEPT ![r] = "running"]
  /\ controller' = [controller EXCEPT ![r] = "working"]
  /\ UNCHANGED <<notices, outbox, bridge, botLock, delivered, trouble>>

-----------------------------------------------------------------------------
(* A bridge *)

Pending(b) == {r \in Runs : ~bridge[b].listed[r].done}
Current(b) == CHOOSE r \in Pending(b) : \A q \in Pending(b) : r <= q
Payload(b) == bridge[b].listed[Current(b)]

At(b, label) == bridge[b].pc = label

BotFree == botLock = "none"

Start(b) ==
  /\ At(b, "off")
  /\ BotFree
  /\ botLock' = b
  /\ bridge' = [bridge EXCEPT ![b].pc = "list"]
  /\ UNCHANGED <<runs, outbox, delivered, trouble>>

(* list_pending_notifications reads every payload before any is sent. *)
List(b) ==
  /\ At(b, "list")
  /\ bridge' = [bridge EXCEPT ![b] = [pc |-> "send", listed |-> outbox]]
  /\ UNCHANGED <<runs, outbox, botLock, delivered, trouble>>

Rest(b, r) == [bridge[b] EXCEPT !.pc = "send", !.listed[r] = NoNotice]

(* TelegramError, or a notice that was replaced: on to the next run. *)
GiveUpCycle(b) ==   \* fault: the error is caught outside of the cycle
  bridge' = [bridge EXCEPT ![b] = [Off EXCEPT !.pc = "list"]]
NextRun(b) == bridge' = [bridge EXCEPT ![b] = Rest(b, Current(b))]

Unsent(b) ==
  /\ At(b, "send") /\ Pending(b) # {}
  /\ Payload(b).sent < Messages(Payload(b))

Deliver(b) ==
  delivered' = [delivered EXCEPT
    ![Current(b)][Payload(b).id][Payload(b).sent + 1] = @ + 1]

SendAnswered(b) ==
  /\ Unsent(b) /\ Current(b) \notin Refused
  /\ Deliver(b)
  /\ bridge' = [bridge EXCEPT ![b].pc = "mark"]
  /\ UNCHANGED <<runs, outbox, botLock, trouble>>

(* The message is delivered and the answer is lost. *)
SendUnanswered(b) ==
  /\ Unsent(b) /\ Current(b) \notin Refused
  /\ trouble < MaxTrouble /\ trouble' = trouble + 1
  /\ Deliver(b)
  /\ NextRun(b)
  /\ UNCHANGED <<runs, outbox, botLock>>

SendRefused(b) ==
  /\ Unsent(b)
  /\ NextRun(b)
  /\ UNCHANGED <<runs, outbox, botLock, delivered, trouble>>

(* Only the notice that was listed is marked. *)
AnyNotice(r, payload) == TRUE   \* fault: the id is not compared
SameNotice(r, payload) == outbox[r].id = payload.id

Advanced(payload) == [payload EXCEPT !.sent = @ + 1]
ForgottenChunk(payload) == payload   \* fault: a chunk is not persisted
PersistedChunk(payload) == Advanced(payload)

(* mark_notification_message_sent *)
MarkMessage(b) ==
  /\ At(b, "mark")
  /\ LET r == Current(b) IN
     IF SameNotice(r, Payload(b)) /\ ~outbox[r].done
     THEN /\ outbox' = [outbox EXCEPT ![r] = PersistedChunk(@)]
          /\ bridge' = [bridge EXCEPT ![b].pc = "send",
                                      ![b].listed[r] = Advanced(@)]
     ELSE NextRun(b) /\ UNCHANGED outbox
  /\ UNCHANGED <<runs, botLock, delivered, trouble>>

(* mark_notification_sent *)
MarkNotice(b) ==
  /\ At(b, "send") /\ Pending(b) # {} /\ ~Unsent(b)
  /\ LET r == Current(b) IN
     outbox' = IF SameNotice(r, Payload(b))
               THEN [outbox EXCEPT ![r].done = TRUE] ELSE outbox
  /\ NextRun(b)
  /\ UNCHANGED <<runs, botLock, delivered, trouble>>

EndCycle(b) ==
  /\ At(b, "send") /\ Pending(b) = {}
  /\ bridge' = [bridge EXCEPT ![b] = [Off EXCEPT !.pc = "list"]]
  /\ UNCHANGED <<runs, outbox, botLock, delivered, trouble>>

(* A bridge that stops between two deliveries loses nothing but its list. *)
Crash(b) ==
  /\ ~At(b, "off")
  /\ trouble < MaxTrouble /\ trouble' = trouble + 1
  /\ bridge' = [bridge EXCEPT ![b] = Off]
  /\ botLock' = IF botLock = b THEN "none" ELSE botLock
  /\ UNCHANGED <<runs, outbox, delivered>>

-----------------------------------------------------------------------------
Controller(r) == Block(r) \/ Approve(r) \/ Enqueue(r) \/ Die(r) \/ Resume(r)

Working(b) ==
  \/ Start(b) \/ List(b) \/ SendAnswered(b) \/ SendRefused(b)
  \/ MarkMessage(b) \/ MarkNotice(b) \/ EndCycle(b)

Next ==
  \/ \E r \in Runs : Controller(r)
  \/ \E b \in Bridges : Working(b) \/ SendUnanswered(b) \/ Crash(b)

Spec == Init /\ [][Next]_vars

(***************************************************************************)
(* A bridge keeps working and is restarted after a crash (the systemd unit *)
(* says Restart=on-failure); a message that is not refused for ever is     *)
(* accepted some time; a controller and a resumed run go on.               *)
(***************************************************************************)
FairSpec ==
  /\ Spec
  /\ WF_vars(\E b \in Bridges : Working(b))
  /\ \A r \in Runs :
       /\ SF_vars(\E b \in Bridges :
                    Pending(b) # {} /\ Current(b) = r /\ SendAnswered(b))
       /\ WF_vars(Enqueue(r)) /\ WF_vars(Resume(r))

-----------------------------------------------------------------------------
(* Properties *)

(* Every variable keeps its type, and the bot has one working bridge. *)
TypeOK ==
  /\ status \in [Runs -> {"running", "BLOCKED", "APPROVED"}]
  /\ controller \in [Runs -> {"working", "gone"} \cup Kinds]
  /\ outbox \in [Runs -> Notices]
  /\ notices \in [Runs -> 0..MaxNotices]
  /\ bridge \in [Bridges -> [pc : {"off", "list", "send", "mark"},
                             listed : [Runs -> Notices]]]
  /\ \A b \in Bridges : botLock = b <=> ~At(b, "off")
  /\ delivered \in [Runs -> [Ids -> [1..MaxMessages -> Nat]]]
  /\ trouble \in 0..MaxTrouble

Received(r, i, m) == delivered[r][i][m] > 0

(* What the outbox marks as sent reached the chat: nothing is skipped,     *)
(* also when another notice took the place of the one being sent.          *)
MarkedWasDelivered ==
  \A r \in Runs : \A m \in 1..MaxMessages :
    (m <= outbox[r].sent
       \/ (outbox[r].done /\ outbox[r].id > 0 /\ m <= Messages(outbox[r])))
      => Received(r, outbox[r].id, m)

(* Every line of a summary that fits into a message is read whole in one   *)
(* that arrived, however the summary is divided: the numbers in front of   *)
(* the parts fit, and what the bridge cuts off is the closing sentence.    *)
SummaryArrives ==
  \A r \in Runs :
    outbox[r].done /\ outbox[r].kind = "approved" =>
      \A messages \in Showing[outbox[r].parts] :
        \E m \in messages : Received(r, outbox[r].id, m)

(* At least once, and again only after a crash or a lost answer.           *)
DuplicatesAreExplained ==
  \A r \in Runs, i \in Ids, m \in 1..MaxMessages : delivered[r][i][m] <= 1 + trouble

(* mark_notification_message_sent: "Persist one Telegram chunk immediately *)
(* so retries never duplicate it."                                         *)
NeverDuplicated ==
  \A r \in Runs, i \in Ids, m \in 1..MaxMessages : delivered[r][i][m] <= 1

(* A notice that can be sent is sent, or replaced by a later one that is,  *)
(* whatever becomes of the notices of other runs.                          *)
NoticesArrive ==
  \A r \in Runs \ Refused : ~outbox[r].done ~> outbox[r].done

(* PROJECT_PROFILE.md: a run in telegram mode ends in APPROVED and leaves  *)
(* a terminal message.                                                     *)
ApprovalIsAnnounced ==
  \A r \in Runs : status[r] = "APPROVED" ~> outbox[r].kind = "approved"
=============================================================================
