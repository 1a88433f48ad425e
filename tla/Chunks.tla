------------------------------- MODULE Chunks -------------------------------
(***************************************************************************)
(* How the summary of an approved run is divided into Telegram messages:   *)
(* split_telegram_message, the closing sentence that notify-approved adds  *)
(* to the last part, and truncate_message, which the bridge applies to     *)
(* what it sends.  A report is the sequence of the lengths of its lines,   *)
(* none of them blank; only lengths matter here.                           *)
(***************************************************************************)
EXTENDS Naturals, Sequences, FiniteSetsExt

ChunkLimit == 3500         \* TELEGRAM_CHUNK_LIMIT, MESSAGE_SOFT_LIMIT
WholeLimit == ChunkLimit   \* fault: no room for the header
BodyLimit == ChunkLimit - 24
Closing == 48              \* "Run finalizada. ..." and what sets it off

Newline(report, i) == IF i < Len(report) THEN 1 ELSE 0
Fits(report, i) == report[i] + Newline(report, i) <= BodyLimit

(* The room a line takes in a chunk; one that does not fit is cut, marked  *)
(* as truncated, and ended.                                                *)
Kept(report, i) ==
  IF Fits(report, i) THEN report[i] + Newline(report, i) ELSE BodyLimit - 2

Size(report, lines) == MapThenSumSet(LAMBDA i : Kept(report, i), lines)

(* A chunk is the set of its lines; the last one is still open when line i *)
(* is added to it, or opens the next one.                                  *)
Placed(report, chunks, i) ==
  LET last == chunks[Len(chunks)] IN
  IF last # {} /\ Size(report, last \cup {i}) > BodyLimit
  THEN Append(chunks, {i})
  ELSE [chunks EXCEPT ![Len(chunks)] = last \cup {i}]

Split(report) ==
  LET chunks[i \in 0..Len(report)] ==
        IF i = 0 THEN <<{}>> ELSE Placed(report, chunks[i - 1], i)
  IN chunks[Len(report)]

Digits(n) == IF n < 10 THEN 1 ELSE IF n < 100 THEN 2 ELSE 3

(* "(m/n)" and a newline, and the lines up to i without their last newline. *)
Header(m, n) == 4 + Digits(m) + Digits(n)
EndOf(report, m, i) ==
  LET chunks == Split(report) IN
  Header(m, Len(chunks))
    + Size(report, {j \in chunks[m] : j <= i})
    - (IF Fits(report, i) THEN Newline(report, i) ELSE 1)

(* truncate_message keeps 3484 characters of a message that is too long.   *)
Sent(report, m) ==
  LET chunks == Split(report)
      text == EndOf(report, m, Max(chunks[m]))
                + (IF m = Len(chunks) THEN Closing ELSE 0)
  IN IF text <= ChunkLimit THEN text ELSE ChunkLimit - 16

(* The lines that a reader of message m sees whole. *)
Shown(report, m) ==
  {i \in Split(report)[m] :
     Fits(report, i) /\ EndOf(report, m, i) <= Sent(report, m)}

ShownBy(report, i) == {m \in DOMAIN Split(report) : i \in Shown(report, m)}
=============================================================================
