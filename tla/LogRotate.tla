----------------------------- MODULE LogRotate -----------------------------
(***************************************************************************)
(* The bound on a log file, collector/log-rotate.ts: copy, rename and      *)
(* truncate, by the process that writes the file, between two cycles.      *)
(* The process can be killed between any two of the three; a second        *)
(* collector may be started by hand, in a terminal, beside it.  The        *)
(* heartbeat's output is no file but a pipe to jobrun, which writes what   *)
(* it reads to the log: that job is told that the log is its own.          *)
(***************************************************************************)
EXTENDS Absent, Integers, Sequences, FiniteSets, SequencesExt

CONSTANTS
  MaxLines,     \* logMaxBytes, in lines: a limit nobody can read is Null
  CycleLines,   \* bound: lines a cycle writes
  MaxWritten    \* bound: lines written in all

ASSUME LogAssumption ==
  Null \notin Nat /\ MaxLines \in (Nat \ {0}) \cup {Null} /\ {CycleLines, MaxWritten} \subseteq Nat

VARIABLES
  live, previous, temp,  \* the file, the generation before it, the copy in the making
  rotor,                 \* where each process stands in a rotation
  piped,                 \* the agent is the heartbeat, under jobrun
  pipe,                  \* lines it has written that jobrun has not passed on
  written,               \* lines written so far: line n is the n-th
  failed                 \* history: a rotation did not come to its end

logVars == <<live, previous, temp, rotor, piped, pipe, written, failed>>

\* The agent's own output is the log; the one started by hand writes to a terminal.
Rotors == {"agent", "hand"}
LogInit ==
  /\ live = <<>> /\ previous = <<>> /\ temp = <<>> /\ written = 0 /\ failed = FALSE
  /\ piped \in BOOLEAN /\ pipe = <<>>
  /\ rotor = [p \in Rotors |-> IF p = "agent" THEN "between" ELSE "cycle"]

-----------------------------------------------------------------------------

Grow(n) == [k \in 1..n |-> written + k]

\* A cycle's lines, or those of a run of the heartbeat.
Write(n) ==
  /\ rotor["agent"] = "cycle" /\ written + n <= MaxWritten
  /\ IF piped THEN pipe' = pipe \o Grow(n) /\ UNCHANGED live
     ELSE live' = live \o Grow(n) /\ UNCHANGED pipe
  /\ written' = written + n
  /\ rotor' = [rotor EXCEPT !["agent"] = "between"]
  /\ UNCHANGED <<previous, temp, piped, failed>>

\* jobrun passes a line on, to the end of the file as it then is.
PassOn ==
  /\ pipe # <<>> /\ live' = Append(live, Head(pipe)) /\ pipe' = Tail(pipe)
  /\ UNCHANGED <<previous, temp, rotor, piped, written, failed>>

\* Mutant: whoever finds the file too long rotates it.
DecideRotation_Anyone(p) == MaxLines # Null /\ Len(live) >= MaxLines

\* The log is known for one's own by the identity of the output, or by the flag of the plist.
Stdout(p) == IF p = "hand" THEN "terminal" ELSE IF piped THEN "pipe" ELSE "log"
StdoutIsLog(p) == p = "agent" /\ piped

\* `decideRotation`: a limit that can be read, reached, by the process whose output it is.
DecideRotation(p) ==
  (Stdout(p) = "log" \/ StdoutIsLog(p)) /\ MaxLines # Null /\ Len(live) >= MaxLines

\* Between two cycles; in the heartbeat first of all, and launchd starts no run of it before
\* jobrun has passed on the lines of the last one.
Check(p) ==
  /\ rotor[p] = IF p = "agent" THEN "between" ELSE "cycle"
  /\ p = "agent" => pipe = <<>>
  /\ IF DecideRotation(p) THEN rotor' = [rotor EXCEPT ![p] = "copy"]
     ELSE rotor' = [rotor EXCEPT ![p] = "cycle"]
  /\ UNCHANGED <<live, previous, temp, piped, pipe, written, failed>>

Copy(p) ==
  /\ rotor[p] = "copy" /\ temp' = live /\ rotor' = [rotor EXCEPT ![p] = "rename"]
  /\ UNCHANGED <<live, previous, piped, pipe, written, failed>>

Rename(p) ==
  /\ rotor[p] = "rename" /\ previous' = temp /\ temp' = <<>>
  /\ rotor' = [rotor EXCEPT ![p] = "truncate"]
  /\ UNCHANGED <<live, piped, pipe, written, failed>>

Truncate(p) ==
  /\ rotor[p] = "truncate" /\ live' = <<>> /\ rotor' = [rotor EXCEPT ![p] = "cycle"]
  /\ UNCHANGED <<previous, temp, piped, pipe, written, failed>>

\* A step throws and the cycle goes on, or the process is killed in the middle and started
\* again: what it left on the disk stays. A copy may be cut short.
Cut(p) ==
  /\ rotor[p] \in {"copy", "rename", "truncate"}
  /\ \E next \in {"cycle", "between"} : rotor' = [rotor EXCEPT ![p] = next]
  /\ failed' = TRUE
  /\ \E n \in 0..Len(live) :
       temp' = IF rotor[p] = "copy" THEN SubSeq(live, 1, n) ELSE temp
  /\ UNCHANGED <<live, previous, piped, pipe, written>>

LogNext ==
  \/ PassOn \/ \E n \in 1..CycleLines : Write(n)
  \/ \E p \in Rotors : Check(p) \/ Copy(p) \/ Rename(p) \/ Truncate(p) \/ Cut(p)

LogSpec == LogInit /\ [][LogNext]_logVars

-----------------------------------------------------------------------------
(* Properties. *)

Kept == ToSet(previous) \cup ToSet(live) \cup ToSet(pipe)

\* What the two files hold is the end of what was written but for what is still on its way
\* to them, without a hole, wherever a rotation was cut, whoever else looked at the file and
\* whoever writes to it (rotateLogIfNeeded).
NoHole == \A m \in Kept : m..written \subseteq Kept

=============================================================================
