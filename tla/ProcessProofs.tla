--------------------------- MODULE ProcessProofs ---------------------------
(***************************************************************************)
(* Proofs about Process, for every set of calls, every number of signals   *)
(* and every number of stream faults.                                      *)
(*                                                                         *)
(* The argument: a call past its first emission has its record durable,    *)
(* and only such a call makes a row (Recorded).  What is crashed is known  *)
(* to main until it has logged it, and after that the status says so       *)
(* unless the log line was lost or a signal came in between (Earned).  The *)
(* lifespan is open past unwinding only if a signal overtook it (Left).    *)
(***************************************************************************)
EXTENDS Process, TLAPS

Recorded ==
    /\ \A c \in Calls : stage[c] \in {"recorded", "sent", "answered", "done"} => <<c, "before">> \in durable
    /\ \A c \in rows : stage[c] \in {"sent", "answered", "done"}

\* Nothing has been served.
Untouched ==
    /\ lifespan = "none"
    /\ durable = {} /\ buffered = {} /\ rows = {}
    /\ \A c \in Calls : stage[c] = "idle"

Earned ==
    /\ phase = "loading" => Untouched /\ ended = "no"
    /\ ended = "refused" => phase \in {"leaving", "hung", "over"}
    /\ exit = "config" => Untouched /\ ended = "refused"
    /\ exit # "none" => phase = "over"
    /\ phase \in {"loading", "building", "serving"} => ~crashed
    /\ phase \in {"loading", "building", "serving", "unwinding", "reporting"} => status = "ok"
    /\ ended = "crashed" \/ status = "software" => crashed
    /\ phase \in {"unwinding", "reporting"} /\ crashed => ended = "crashed" \/ overtaken
    /\ phase \in {"flushing", "exiting"} /\ crashed /\ status = "ok" => reported = "raised" \/ overtaken
    /\ exit = "software" => crashed
    /\ exit = "ok" /\ crashed => reported = "raised" \/ overtaken

Left ==
    /\ phase \in {"loading", "building"} => lifespan = "none"
    /\ phase \in {"reporting", "flushing", "exiting"} /\ lifespan = "open" => overtaken
    /\ exit \in {"ok", "software"} /\ lifespan = "open" => overtaken

PInv == PTypeOK /\ Recorded /\ Earned /\ Left

-----------------------------------------------------------------------------
(* The sink, and the actions, one lemma each. *)

LEMMA SinkKeeps ==
    ASSUME NEW c \in Calls, NEW p \in {"before", "after"}, NEW ok \in BOOLEAN,
           buffered \subseteq Lines, durable \subseteq Lines, Sink(<<c, p>>, ok)
    PROVE  /\ buffered' \subseteq Lines /\ durable' \subseteq Lines
           /\ durable \subseteq durable'
           /\ ok => <<c, p>> \in durable'
<1>1. <<c, p>> \in Lines
  BY DEF Lines
<1> QED BY <1>1 DEF Sink

LEMMA LogKeeps ==
    ASSUME NEW ok \in BOOLEAN, buffered \subseteq Lines, durable \subseteq Lines, LogLine(ok)
    PROVE  /\ buffered' \subseteq Lines /\ durable' \subseteq Lines
           /\ durable \subseteq durable'
           /\ buffered = {} /\ durable = {} => buffered' = {} /\ durable' = {}
BY DEF LogLine

LEMMA InitInv == ASSUME PInit PROVE PInv
<1>1. PTypeOK
  <2>1. works \in [Streams -> BOOLEAN] /\ stage \in [Calls -> Stages]
    BY DEF PInit, Stages
  <2>2. reader \in BOOLEAN /\ crashed \in BOOLEAN /\ overtaken \in BOOLEAN
    BY DEF PInit
  <2>3. told \in 0..MaxSignals /\ faults \in 0..MaxFaults
    BY ProcessAssumption DEF PInit
  <2> QED BY <2>1, <2>2, <2>3 DEF PInit, PTypeOK, Phases
<1>2. Recorded
  BY DEF PInit, Recorded
<1>3. Earned
  BY DEF PInit, Earned, Untouched
<1>4. Left
  BY DEF PInit, Left
<1> QED BY <1>1, <1>2, <1>3, <1>4 DEF PInv

LEMMA RefuseInv == ASSUME PInv, Refuse PROVE PInv'
<1>1. /\ buffered' \subseteq Lines /\ durable' \subseteq Lines
      /\ durable \subseteq durable'
      /\ buffered = {} /\ durable = {} => buffered' = {} /\ durable' = {}
  BY LogKeeps DEF Refuse, PInv, PTypeOK
<1>2. PTypeOK'
  BY <1>1 DEF Refuse, PInv, PTypeOK, Phases, Streams
<1>3. Recorded'
  BY <1>1 DEF Refuse, PInv, PTypeOK, Recorded
<1>4. Earned'
  BY <1>1 DEF Refuse, PInv, PTypeOK, Earned, Untouched
<1>5. Left'
  BY DEF Refuse, PInv, PTypeOK, Left
<1> QED BY <1>2, <1>3, <1>4, <1>5 DEF PInv

LEMMA AcceptInv == ASSUME PInv, Accept PROVE PInv'
<1>1. PTypeOK'
  BY DEF Accept, PInv, PTypeOK, Phases, Streams
<1>2. Recorded'
  BY DEF Accept, PInv, PTypeOK, Recorded
<1>3. Earned'
  BY DEF Accept, PInv, PTypeOK, Earned, Untouched
<1>4. Left'
  BY DEF Accept, PInv, PTypeOK, Left
<1> QED BY <1>1, <1>2, <1>3, <1>4 DEF PInv

LEMMA BuildInv == ASSUME PInv, Build PROVE PInv'
<1>1. /\ buffered' \subseteq Lines /\ durable' \subseteq Lines
      /\ durable \subseteq durable'
  BY LogKeeps DEF Build, PInv, PTypeOK
<1>2. /\ phase = "building"
      /\ UNCHANGED <<transport, lifespan, reader, reported, status, exit, told, overtaken, works,
                     faults, flush, stage, rows>>
      /\ \/ phase' \in {"leaving", "serving"} /\ ended' = ended /\ crashed' = crashed
         \/ phase' = "reporting" /\ ended' = "crashed" /\ crashed' = TRUE
  BY DEF Build
<1>3. PTypeOK'
  <2>1. crashed' \in BOOLEAN
    BY <1>2 DEF PInv, PTypeOK
  <2> QED BY <1>1, <1>2, <2>1 DEF PInv, PTypeOK, Phases
<1>4. Recorded'
  BY <1>1, <1>2 DEF PInv, Recorded
<1>5. Earned'
  BY <1>2 DEF PInv, Earned
<1>6. Left'
  BY <1>2 DEF PInv, Left
<1> QED BY <1>3, <1>4, <1>5, <1>6 DEF PInv

LEMMA OpenInv == ASSUME PInv, Open PROVE PInv'
<1>1. /\ phase = "serving" /\ lifespan' \in {lifespan, "open"} /\ exit = "none"
      /\ UNCHANGED <<transport, phase, ended, crashed, reported, status, exit, told, overtaken,
                     works, faults, flush, stage, rows, buffered, durable>>
  BY DEF Open, PInv, PTypeOK, Earned
<1>2. PTypeOK'
  <2>1. reader' \in BOOLEAN
    BY DEF Open, PInv, PTypeOK
  <2> QED BY <1>1, <2>1 DEF PInv, PTypeOK, Phases
<1>3. Recorded'
  BY <1>1 DEF PInv, Recorded
<1>4. Earned'
  BY <1>1 DEF PInv, Earned
<1>5. Left'
  BY <1>1 DEF PInv, Left
<1> QED BY <1>2, <1>3, <1>4, <1>5 DEF PInv

LEMMA FinishInv == ASSUME PInv, Finish PROVE PInv'
<1>1. PTypeOK'
  BY DEF Finish, Serves, PInv, PTypeOK, Phases, Streams
<1>2. Recorded'
  BY DEF Finish, PInv, PTypeOK, Recorded
<1>3. Earned'
  BY DEF Finish, Serves, PInv, PTypeOK, Earned, Untouched
<1>4. Left'
  BY DEF Finish, PInv, PTypeOK, Left
<1> QED BY <1>1, <1>2, <1>3, <1>4 DEF PInv

LEMMA SigkillInv == ASSUME PInv, Sigkill PROVE PInv'
<1>1. PTypeOK'
  BY DEF Sigkill, PInv, PTypeOK, Phases, Streams
<1>2. Recorded'
  BY DEF Sigkill, PInv, PTypeOK, Recorded
<1>3. Earned'
  BY DEF Sigkill, PInv, PTypeOK, Earned, Untouched
<1>4. Left'
  BY DEF Sigkill, PInv, PTypeOK, Left
<1> QED BY <1>1, <1>2, <1>3, <1>4 DEF PInv

LEMMA StreamChangesInv == ASSUME PInv, StreamChanges PROVE PInv'
<1>1. PTypeOK'
  BY ProcessAssumption DEF StreamChanges, PInv, PTypeOK, Phases
<1>2. Recorded'
  BY DEF StreamChanges, PInv, PTypeOK, Recorded
<1>3. Earned'
  BY DEF StreamChanges, PInv, PTypeOK, Earned, Untouched
<1>4. Left'
  BY DEF StreamChanges, PInv, PTypeOK, Left
<1> QED BY <1>1, <1>2, <1>3, <1>4 DEF PInv

LEMMA HttpStopsInv == ASSUME PInv, HttpStops PROVE PInv'
<1>1. PTypeOK'
  BY DEF HttpStops, PInv, PTypeOK, Phases, Streams
<1>2. Recorded'
  BY DEF HttpStops, PInv, PTypeOK, Recorded
<1>3. Earned'
  BY DEF HttpStops, PInv, PTypeOK, Earned, Untouched
<1>4. Left'
  BY DEF HttpStops, PInv, PTypeOK, Left
<1> QED BY <1>1, <1>2, <1>3, <1>4 DEF PInv

LEMMA UnwindInv == ASSUME PInv, Unwind PROVE PInv'
<1>1. PTypeOK'
  BY DEF Unwind, PInv, PTypeOK, Phases, Streams
<1>2. Recorded'
  BY DEF Unwind, PInv, PTypeOK, Recorded
<1>3. Earned'
  BY DEF Unwind, PInv, PTypeOK, Earned, Untouched
<1>4. Left'
  BY DEF Unwind, PInv, PTypeOK, Left
<1> QED BY <1>1, <1>2, <1>3, <1>4 DEF PInv

LEMMA ReportInv == ASSUME PInv, Report PROVE PInv'
<1>1. /\ buffered' \subseteq Lines /\ durable' \subseteq Lines
      /\ durable \subseteq durable'
      /\ buffered = {} /\ durable = {} => buffered' = {} /\ durable' = {}
  BY LogKeeps DEF Report, PInv, PTypeOK
<1>2. PTypeOK'
  BY <1>1 DEF Report, StatusAfter, PInv, PTypeOK, Phases, Streams
<1>3. Recorded'
  BY <1>1 DEF Report, PInv, PTypeOK, Recorded
<1>4. Earned'
  BY <1>1 DEF Report, StatusAfter, PInv, PTypeOK, Earned, Untouched
<1>5. Left'
  BY DEF Report, PInv, PTypeOK, Left
<1> QED BY <1>2, <1>3, <1>4, <1>5 DEF PInv

LEMMA FlushStreamsInv == ASSUME PInv, FlushStreams PROVE PInv'
<1>1. PTypeOK'
  BY DEF FlushStreams, PInv, PTypeOK, Phases, Streams
<1>2. Recorded'
  BY DEF FlushStreams, PInv, PTypeOK, Recorded
<1>3. Earned'
  BY DEF FlushStreams, PInv, PTypeOK, Earned, Untouched
<1>4. Left'
  BY DEF FlushStreams, PInv, PTypeOK, Left
<1> QED BY <1>1, <1>2, <1>3, <1>4 DEF PInv

LEMMA ForceExitInv == ASSUME PInv, ForceExit PROVE PInv'
<1>1. PTypeOK'
  BY DEF ForceExit, PInv, PTypeOK, Phases, Streams
<1>2. Recorded'
  BY DEF ForceExit, PInv, PTypeOK, Recorded
<1>3. Earned'
  BY DEF ForceExit, PInv, PTypeOK, Earned, Untouched
<1>4. Left'
  BY DEF ForceExit, PInv, PTypeOK, Left
<1> QED BY <1>1, <1>2, <1>3, <1>4 DEF PInv

LEMMA LeaveInv == ASSUME PInv, Leave PROVE PInv'
<1>1. PTypeOK'
  BY DEF Leave, PInv, PTypeOK, Phases, Streams
<1>2. Recorded'
  BY DEF Leave, PInv, PTypeOK, Recorded
<1>3. Earned'
  BY DEF Leave, PInv, PTypeOK, Earned, Untouched
<1>4. Left'
  BY DEF Leave, PInv, PTypeOK, Left
<1> QED BY <1>1, <1>2, <1>3, <1>4 DEF PInv

-----------------------------------------------------------------------------
(* The actions of one call. *)

LEMMA PostInv == ASSUME PInv, NEW c \in Calls, Post(c) PROVE PInv'
<1>1. PTypeOK'
  BY DEF Post, Serves, Stages, PInv, PTypeOK, Phases
<1>2. Recorded'
  BY DEF Post, Serves, Stages, PInv, PTypeOK, Recorded
<1>3. Earned'
  BY DEF Post, Serves, Stages, PInv, PTypeOK, Earned, Untouched
<1>4. Left'
  BY DEF Post, Serves, Stages, PInv, PTypeOK, Left
<1> QED BY <1>1, <1>2, <1>3, <1>4 DEF PInv

LEMMA AnswerInv == ASSUME PInv, NEW c \in Calls, Answer(c) PROVE PInv'
<1>1. PTypeOK'
  BY DEF Answer, Serves, Stages, PInv, PTypeOK, Phases
<1>2. Recorded'
  BY DEF Answer, Serves, Stages, PInv, PTypeOK, Recorded
<1>3. Earned'
  BY DEF Answer, Serves, Stages, PInv, PTypeOK, Earned, Untouched
<1>4. Left'
  BY DEF Answer, Serves, Stages, PInv, PTypeOK, Left
<1> QED BY <1>1, <1>2, <1>3, <1>4 DEF PInv

LEMMA LandInv == ASSUME PInv, NEW c \in Calls, Land(c) PROVE PInv'
<1>1. PTypeOK'
  BY DEF Land, Stages, PInv, PTypeOK, Phases
<1>2. Recorded'
  BY DEF Land, Stages, PInv, PTypeOK, Recorded
<1>3. Earned'
  BY DEF Land, Stages, PInv, PTypeOK, Earned, Untouched
<1>4. Left'
  BY DEF Land, Stages, PInv, PTypeOK, Left
<1> QED BY <1>1, <1>2, <1>3, <1>4 DEF PInv

(* Where a record is emitted: only its line moves, and it is durable if the
   emission returned. *)
LEMMA RecordInv == ASSUME PInv, NEW c \in Calls, Record(c) PROVE PInv'
<1> PICK ok \in BOOLEAN : /\ Sink(<<c, "before">>, ok)
                          /\ stage' = [stage EXCEPT ![c] = IF ok THEN "recorded" ELSE "refused"]
  BY DEF Record
<1>1. /\ buffered' \subseteq Lines /\ durable' \subseteq Lines
      /\ durable \subseteq durable'
      /\ ok => <<c, "before">> \in durable'
  BY SinkKeeps DEF PInv, PTypeOK
<1>2. /\ phase = "serving" /\ stage[c] = "idle"
      /\ UNCHANGED <<transport, phase, lifespan, reader, ended, crashed, reported, status, exit,
                     told, overtaken, works, faults, flush, rows>>
  BY DEF Record, Serves
<1>3. stage' \in [Calls -> Stages]
  BY DEF PInv, PTypeOK, Stages
<1>4. PTypeOK'
  BY <1>1, <1>2, <1>3 DEF PInv, PTypeOK
<1>5. Recorded'
  BY <1>1, <1>2 DEF PInv, PTypeOK, Recorded
<1>6. Earned'
  BY <1>2 DEF PInv, Earned
<1>7. Left'
  BY <1>2 DEF PInv, Left
<1> QED BY <1>4, <1>5, <1>6, <1>7 DEF PInv

LEMMA OutcomeInv == ASSUME PInv, NEW c \in Calls, Outcome(c) PROVE PInv'
<1> PICK ok \in BOOLEAN : Sink(<<c, "after">>, ok)
  BY DEF Outcome
<1>1. /\ buffered' \subseteq Lines /\ durable' \subseteq Lines
      /\ durable \subseteq durable'
  BY SinkKeeps DEF PInv, PTypeOK
<1>2. /\ phase = "serving" /\ stage[c] = "answered" /\ stage' = [stage EXCEPT ![c] = "done"]
      /\ UNCHANGED <<transport, phase, lifespan, reader, ended, crashed, reported, status, exit,
                     told, overtaken, works, faults, flush, rows>>
  BY DEF Outcome, Serves
<1>3. stage' \in [Calls -> Stages]
  BY <1>2 DEF PInv, PTypeOK, Stages
<1>4. PTypeOK'
  BY <1>1, <1>2, <1>3 DEF PInv, PTypeOK
<1>5. Recorded'
  BY <1>1, <1>2 DEF PInv, PTypeOK, Recorded
<1>6. Earned'
  BY <1>2 DEF PInv, Earned
<1>7. Left'
  BY <1>2 DEF PInv, Left
<1> QED BY <1>4, <1>5, <1>6, <1>7 DEF PInv

-----------------------------------------------------------------------------
(* Signals: what is common to every SIGTERM, then where it finds main. *)

LEMMA SigtermInv == ASSUME PInv, Sigterm PROVE PInv'
<1>1. /\ told' \in 0..MaxSignals
      /\ UNCHANGED <<transport, reader, crashed, reported, status, works, faults, flush, stage, rows>>
  BY ProcessAssumption DEF Sigterm, PInv, PTypeOK
<1>2. /\ buffered' \subseteq Lines
      /\ durable' = durable
  BY DEF Sigterm, TermDefault, InterruptBuild, Interrupt, Capture, Overtake, PInv, PTypeOK, Lines
<1>3. PTypeOK'
  <2>1. /\ phase' \in Phases
        /\ exit' \in {exit, "killed"}
        /\ ended' \in {ended, "interrupted"}
        /\ lifespan' = lifespan
        /\ overtaken' \in BOOLEAN
    BY DEF Sigterm, TermDefault, InterruptBuild, Interrupt, Capture, Overtake, PInv, PTypeOK, Phases
  <2> QED BY <1>1, <1>2, <2>1 DEF PInv, PTypeOK
<1>4. Recorded'
  BY <1>1, <1>2 DEF PInv, Recorded
<1>5. Earned' /\ Left'
  <2>1. CASE TermDefault
    BY <1>1, <2>1 DEF TermDefault, PInv, Earned, Untouched, Left
  <2>2. CASE InterruptBuild
    BY <1>1, <2>2 DEF InterruptBuild, PInv, Earned, Untouched, Left
  <2>3. CASE Interrupt
    BY <1>1, <2>3 DEF Interrupt, PInv, Earned, Untouched, Left
  <2>4. CASE Capture
    BY <1>1, <2>4 DEF Capture, PInv, Earned, Untouched, Left
  <2>5. CASE Overtake
    BY <1>1, <2>5 DEF Overtake, PInv, Earned, Untouched, Left
  <2> QED BY <2>1, <2>2, <2>3, <2>4, <2>5 DEF Sigterm
<1> QED BY <1>3, <1>4, <1>5 DEF PInv

-----------------------------------------------------------------------------
(* The theorems *)

LEMMA PInvStep == PInv /\ [PNext]_pvars => PInv'
<1> SUFFICES ASSUME PInv, [PNext]_pvars PROVE PInv'
  OBVIOUS
<1>1. CASE Refuse \/ Accept \/ Build \/ Open \/ Finish
  BY <1>1, RefuseInv, AcceptInv, BuildInv, OpenInv, FinishInv
<1>2. ASSUME NEW c \in Calls, Call(c) PROVE PInv'
  BY <1>2, RecordInv, PostInv, LandInv, AnswerInv, OutcomeInv DEF Call
<1>3. CASE Sigterm \/ Sigkill \/ StreamChanges
  BY <1>3, SigtermInv, SigkillInv, StreamChangesInv
<1>4. CASE Stopping
  BY <1>4, HttpStopsInv, UnwindInv, ReportInv, FlushStreamsInv, ForceExitInv, LeaveInv DEF Stopping
<1>5. CASE UNCHANGED pvars
  BY <1>5 DEF pvars, PInv, PTypeOK, Recorded, Earned, Untouched, Left
<1> QED BY <1>1, <1>2, <1>3, <1>4, <1>5 DEF PNext

LEMMA PInvHolds == PSpec => []PInv
BY InitInv, PInvStep, PTL DEF PSpec

(* Every variable keeps to its type, whatever the signals and the streams do. *)
THEOREM ProcessTyped == PSpec => []PTypeOK
<1>1. PInv => PTypeOK
  BY DEF PInv
<1> QED BY <1>1, PInvHolds, PTL

(* No row without its durable record, under any crash, signal or kill. *)
THEOREM ProcessRowsHaveRecords == PSpec => []RowsHaveRecords
<1>1. PInv => RowsHaveRecords
  BY DEF PInv, PTypeOK, Recorded, RowsHaveRecords
<1> QED BY <1>1, PInvHolds, PTL

(* The exit status is the one the run earned. *)
THEOREM ProcessStatusEarned == PSpec => []StatusEarned
<1>1. PInv => StatusEarned
  BY DEF PInv, Earned, Untouched, StatusEarned
<1> QED BY <1>1, PInvHolds, PTL

(* The lifespan has been left before a forced exit, unless a signal overtook it. *)
THEOREM ProcessTeardown == PSpec => []TeardownBeforeExit
<1>1. PInv => TeardownBeforeExit
  BY DEF PInv, Left, TeardownBeforeExit
<1> QED BY <1>1, PInvHolds, PTL

=============================================================================
