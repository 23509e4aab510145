---------------------------- MODULE RecordingLog ----------------------------
(***************************************************************************)
(* What the crash-safe layout of the Writer promises, without blocks,      *)
(* buffers or patches: a log of records of which a reader that opens the   *)
(* file now would get the first `readable` ones.  Records become readable  *)
(* in order and stay readable; a power loss may take some back, but none   *)
(* that a Flush has made durable; a successful Close makes all of them     *)
(* readable.  While the log is being closed nothing is promised of a power *)
(* loss: the log is torn, and counts as empty.                             *)
(***************************************************************************)
EXTENDS Integers

VARIABLES appended, readable, durable, status

logvars == <<appended, readable, durable, status>>

Running == status \in {"open", "closing"}

Init == appended = 0 /\ readable = 0 /\ durable = 0 /\ status = "open"

(* A record is handed over; the operating system may get to see more.      *)
Append ==
    /\ status = "open"
    /\ appended' = appended + 1
    /\ readable' \in readable..appended'
    /\ UNCHANGED <<durable, status>>

(* More of the log reaches the file.                                       *)
Spill ==
    /\ Running
    /\ readable' \in readable..appended
    /\ UNCHANGED <<appended, durable, status>>

(* A flush makes more of the log readable, and a prefix of it durable.     *)
Flush ==
    /\ status = "open"
    /\ readable' \in readable..appended
    /\ durable' \in durable..readable'
    /\ UNCHANGED <<appended, status>>

StartClose ==
    /\ status = "open" /\ status' = "closing"
    /\ UNCHANGED <<appended, readable, durable>>

(* Close succeeds only with the whole log readable; otherwise it fails and *)
(* what was readable stays readable.                                       *)
Close ==
    /\ status = "closing" /\ status' \in {"closed", "failed"}
    /\ readable' \in readable..appended
    /\ durable' \in durable..readable'
    /\ status' = "closed" => readable' = appended
    /\ UNCHANGED appended

PowerLoss ==
    /\ status = "open" /\ status' = "lost"
    /\ readable' \in durable..readable
    /\ UNCHANGED <<appended, durable>>

Tear ==
    /\ status = "closing" /\ status' = "torn"
    /\ readable' = 0 /\ durable' = 0
    /\ UNCHANGED appended

Next == Append \/ Spill \/ Flush \/ StartClose \/ Close \/ PowerLoss \/ Tear

Spec == Init /\ [][Next]_logvars

(* The state the log keeps, and the promise: flushed records are readable, *)
(* only appended ones are, and all of them after a successful Close.       *)
LogInvariant ==
    /\ appended \in Nat /\ readable \in Nat /\ durable \in Nat
    /\ status \in {"open", "closing", "closed", "failed", "lost", "torn"}
    /\ durable <= readable /\ readable <= appended
    /\ status = "closed" => readable = appended
=============================================================================
