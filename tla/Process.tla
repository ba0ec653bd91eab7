------------------------------- MODULE Process -------------------------------
(***************************************************************************)
(* The life of the server process: __main__.py, with what it runs, from    *)
(* loading the settings to the exit status a supervisor reads.             *)
(*                                                                         *)
(* What competes here: signals, which raise KeyboardInterrupt wherever the *)
(* one thread happens to be; the output streams, which may fail and come   *)
(* back; the end of the host's stdin; a crash; SIGKILL.  Of a write call   *)
(* only the two audit records, the POST and Jobvite's row are kept: what   *)
(* is asked is which of them survive the process.                          *)
(***************************************************************************)
EXTENDS FiniteSets, Naturals

CONSTANTS
    Calls,         \* write calls made while the process serves
    MaxSignals,    \* bound: SIGTERMs delivered
    MaxFaults      \* bound: times an output stream breaks or recovers

ASSUME ProcessAssumption == MaxSignals \in Nat /\ MaxFaults \in Nat

VARIABLES
    transport,   \* the transport the settings select
    phase,       \* where main is
    lifespan,    \* the server's lifespan: not entered, open, or left
    reader,      \* is the stdio reader thread (not a daemon) alive
    ended,       \* how the serving path ended, as main sees it
    crashed,     \* did the serving path ever fail
    reported,    \* what became of main's last log line
    status,      \* main's local of that name
    exit,        \* the exit status, once there is one
    told,        \* SIGTERMs delivered
    overtaken,   \* did one arrive when the process was already stopping
    works,       \* per stream: does a flush to it succeed
    faults,      \* changes of works so far
    flush,       \* the outcome of the flushes in main's finally
    stage,       \* per call: where its coroutine is
    rows,        \* calls whose POST made a row
    buffered,    \* audit lines in stderr's buffer
    durable      \* audit lines that left the process

callvars == <<stage, rows, buffered, durable>>
pvars == <<transport, phase, lifespan, reader, ended, crashed, reported, status, exit,
           told, overtaken, works, faults, flush, stage, rows, buffered, durable>>

-----------------------------------------------------------------------------
(* Values *)

Streams == {"stdout", "stderr"}
Lines == Calls \X {"before", "after"}        \* an audit record, by call and phase
Stages == {"idle", "refused", "recorded", "sent", "answered", "done"}

Phases == {"loading", "building", "serving", "unwinding", "reporting",
           "flushing", "exiting", "leaving", "hung", "over"}

PTypeOK ==
    /\ transport \in {"stdio", "http"}
    /\ phase \in Phases
    /\ lifespan \in {"none", "open", "left"}
    /\ reader \in BOOLEAN
    /\ ended \in {"no", "refused", "returned", "interrupted", "crashed"}
    /\ crashed \in BOOLEAN
    /\ reported \in {"no", "yes", "raised"}
    /\ status \in {"ok", "software"}
    /\ exit \in {"none", "ok", "software", "config", "raised", "killed"}
    /\ told \in 0..MaxSignals
    /\ overtaken \in BOOLEAN
    /\ works \in [Streams -> BOOLEAN]
    /\ faults \in 0..MaxFaults
    /\ flush \in {"none", "ok", "failed"}
    /\ stage \in [Calls -> Stages]
    /\ rows \subseteq Calls
    /\ buffered \subseteq Lines
    /\ durable \subseteq Lines

PInit ==
    /\ transport \in {"stdio", "http"}
    /\ phase = "loading"
    /\ lifespan = "none"
    /\ reader = FALSE
    /\ ended = "no"
    /\ crashed = FALSE
    /\ reported = "no"
    /\ status = "ok"
    /\ exit = "none"
    /\ told = 0
    /\ overtaken = FALSE
    /\ works = [s \in Streams |-> TRUE]
    /\ faults = 0
    /\ flush = "none"
    /\ stage = [c \in Calls |-> "idle"]
    /\ rows = {}
    /\ buffered = {}
    /\ durable = {}

-----------------------------------------------------------------------------
(* The one log sink: write, then flush.  A line fails if stderr does, and  *)
(* also if its redaction raises, which urlsplit makes redact_url do on a   *)
(* malformed address; nothing is written then.                             *)

\* Mutant: a sink that writes and leaves the flushing to the stream.
SinkUnflushed(line, ok) ==
    /\ \/ ok
       \/ ~ok /\ UNCHANGED buffered
    /\ ok => buffered' = buffered \cup {line}
    /\ UNCHANGED durable

\* Mutant: loguru's own default, catch=True: the call returns normally.
SinkCatching(line, ok) ==
    /\ ok
    /\ \/ /\ works["stderr"]
          /\ durable' = durable \cup buffered \cup {line}
          /\ buffered' = {}
       \/ UNCHANGED <<buffered, durable>>

\* _redacting_sink, under the handler configure_logging installs: ok is
\* whether the call that logs returns or raises.
Sink(line, ok) ==
    \/ /\ ok
       /\ works["stderr"]
       /\ durable' = durable \cup buffered \cup {line}
       /\ buffered' = {}
    \/ /\ ~ok
       /\ buffered' \in {buffered, buffered \cup {line}}
       /\ UNCHANGED durable

\* The same for a line that is no audit record.
LogLine(ok) ==
    \/ /\ ok
       /\ works["stderr"]
       /\ durable' = durable \cup buffered
       /\ buffered' = {}
    \/ ~ok /\ UNCHANGED <<buffered, durable>>

-----------------------------------------------------------------------------
(* Starting *)

\* main, the settings refused: every reason is logged, before any handler is
\* installed and anything is built.  Code 78 is "config" here, 70 "software".
Refuse ==
    /\ phase = "loading"
    /\ ended' = "refused"
    /\ \E ok \in BOOLEAN :
          /\ LogLine(ok)
          /\ reported' = IF ok THEN "yes" ELSE "raised"
          /\ phase' = IF ok THEN "over" ELSE "leaving"
          /\ exit' = IF ok THEN "config" ELSE exit
    /\ UNCHANGED <<transport, lifespan, reader, crashed, status, told, overtaken, works, faults,
                   flush, stage, rows>>

\* The settings are accepted and the shutdown handler installed.
Accept ==
    /\ phase = "loading"
    /\ phase' = "building"
    /\ UNCHANGED <<transport, lifespan, reader, ended, crashed, reported, status, exit, told,
                   overtaken, works, faults, flush, stage, rows, buffered, durable>>

\* build_server, outside the try; then the first line inside it.  A line that
\* cannot be written is a failure of the serving path like any other.
Build ==
    /\ phase = "building"
    /\ \/ phase' = "leaving" /\ UNCHANGED <<ended, crashed, buffered, durable>>
       \/ phase' = "serving" /\ LogLine(TRUE) /\ UNCHANGED <<ended, crashed>>
       \/ phase' = "reporting" /\ LogLine(FALSE) /\ ended' = "crashed" /\ crashed' = TRUE
    /\ UNCHANGED <<transport, lifespan, reader, reported, status, exit, told, overtaken, works,
                   faults, flush, stage, rows>>

\* mcp.run enters the lifespan, then on stdio starts the thread that reads.
Open ==
    /\ phase = "serving"
    /\ \/ lifespan = "none" /\ lifespan' = "open" /\ UNCHANGED reader
       \/ /\ lifespan = "open" /\ transport = "stdio" /\ ~reader /\ ended = "no"
          /\ reader' = TRUE
          /\ UNCHANGED lifespan
    /\ UNCHANGED <<transport, phase, ended, crashed, reported, status, exit, told, overtaken,
                   works, faults, flush, stage, rows, buffered, durable>>

-----------------------------------------------------------------------------
(* Serving: create_candidate between its two records *)

Serves == phase = "serving" /\ lifespan = "open" /\ (transport = "stdio" => reader)

\* emit BEFORE_SIDE_EFFECT: if the line fails, so does the call.
Record(c) ==
    /\ Serves /\ stage[c] = "idle"
    /\ \E ok \in BOOLEAN :
          /\ Sink(<<c, "before">>, ok)
          /\ stage' = [stage EXCEPT ![c] = IF ok THEN "recorded" ELSE "refused"]
    /\ UNCHANGED <<transport, phase, lifespan, reader, ended, crashed, reported, status, exit,
                   told, overtaken, works, faults, flush, rows>>

Post(c) ==
    /\ Serves /\ stage[c] = "recorded"
    /\ stage' = [stage EXCEPT ![c] = "sent"]
    /\ UNCHANGED <<transport, phase, lifespan, reader, ended, crashed, reported, status, exit,
                   told, overtaken, works, faults, flush, rows, buffered, durable>>

\* Jobvite acts on a POST it was sent, whatever has become of the sender.
Land(c) ==
    /\ stage[c] \in {"sent", "answered", "done"} /\ c \notin rows
    /\ rows' = rows \cup {c}
    /\ UNCHANGED <<transport, phase, lifespan, reader, ended, crashed, reported, status, exit,
                   told, overtaken, works, faults, flush, stage, buffered, durable>>

Answer(c) ==
    /\ Serves /\ stage[c] = "sent"
    /\ stage' = [stage EXCEPT ![c] = "answered"]
    /\ UNCHANGED <<transport, phase, lifespan, reader, ended, crashed, reported, status, exit,
                   told, overtaken, works, faults, flush, rows, buffered, durable>>

\* emit AFTER_WRITE: never raises, whatever becomes of the line.
Outcome(c) ==
    /\ Serves /\ stage[c] = "answered"
    /\ \E ok \in BOOLEAN : Sink(<<c, "after">>, ok)
    /\ stage' = [stage EXCEPT ![c] = "done"]
    /\ UNCHANGED <<transport, phase, lifespan, reader, ended, crashed, reported, status, exit,
                   told, overtaken, works, faults, flush, rows>>

-----------------------------------------------------------------------------
(* Ending *)

\* mcp.run's own ends: the host closes stdin, or the serving path fails (a port
\* in use, a lifespan that raises, a transport that breaks).
Finish ==
    /\ phase = "serving"
    /\ \/ /\ Serves /\ transport = "stdio"
          /\ ended' = "returned"
          /\ reader' = FALSE
          /\ UNCHANGED crashed
       \/ /\ ended' = "crashed"
          /\ crashed' = TRUE
          /\ UNCHANGED reader
    /\ phase' = "unwinding"
    /\ UNCHANGED <<transport, lifespan, reported, status, exit, told, overtaken, works, faults,
                   flush, stage, rows, buffered, durable>>

\* Mutant: the handler leaves at once, without unwinding.
InterruptAtOnce ==
    /\ phase = "serving" /\ transport = "stdio"
    /\ ended' = "interrupted"
    /\ phase' = "exiting"
    /\ UNCHANGED <<lifespan, overtaken, exit, buffered, durable>>

\* Mutant: the handler found under SIGINT, which a backgrounded process ignores.
InterruptIgnored ==
    /\ phase = "serving" /\ transport = "stdio"
    /\ UNCHANGED <<phase, ended, lifespan, overtaken, exit, buffered, durable>>

\* _term while stdio serves: KeyboardInterrupt, perhaps with a record written
\* and not yet flushed.
Interrupt ==
    /\ phase = "serving" /\ transport = "stdio"
    /\ ended' = "interrupted"
    /\ phase' = "unwinding"
    /\ \/ UNCHANGED buffered
       \/ \E c \in Calls :
            \/ /\ stage[c] = "idle" /\ Serves
               /\ buffered' = buffered \cup {<<c, "before">>}
            \/ /\ stage[c] = "answered" /\ Serves
               /\ buffered' = buffered \cup {<<c, "after">>}
    /\ UNCHANGED <<lifespan, overtaken, exit, durable>>

\* On HTTP uvicorn captures the signal and stops at its next tick.  Signals are
\* captured until it has shut down, the first part of "unwinding"; then it
\* restores _term and raises the signal again, which _term turns into the
\* KeyboardInterrupt that leaves the lifespan: from there on see Overtake.
Capture ==
    /\ transport = "http"
    /\ \/ phase = "serving" /\ ended' = "interrupted"
       \/ phase = "unwinding" /\ UNCHANGED ended
    /\ UNCHANGED <<phase, lifespan, overtaken, exit, buffered, durable>>

\* _term anywhere else, on either transport: it replaces whatever main was
\* unwinding for, skips what is left of the teardown or of the except clause, or
\* leaves main.
Overtake ==
    /\ \/ /\ phase = "unwinding"
          /\ ended' = "interrupted"
          /\ phase' = "reporting"
       \/ phase = "reporting" /\ phase' = "flushing" /\ UNCHANGED ended
       \/ phase \in {"flushing", "exiting"} /\ phase' = "leaving" /\ UNCHANGED ended
    /\ overtaken' = TRUE
    /\ UNCHANGED <<lifespan, exit, buffered, durable>>

\* SIGTERM before _install_shutdown_handler: the default action.
TermDefault ==
    /\ phase = "loading"
    /\ phase' = "over" /\ exit' = "killed"
    /\ buffered' = {}
    /\ UNCHANGED <<ended, lifespan, overtaken, durable>>

\* _term while build_server runs, which no try surrounds.
InterruptBuild ==
    /\ phase = "building"
    /\ phase' = "leaving"
    /\ UNCHANGED <<ended, lifespan, overtaken, exit, buffered, durable>>

Sigterm ==
    /\ told < MaxSignals
    /\ told' = told + 1
    /\ TermDefault \/ InterruptBuild \/ Interrupt \/ Capture \/ Overtake
    /\ UNCHANGED <<transport, reader, crashed, reported, status, works, faults, flush, stage, rows>>

Sigkill ==
    /\ phase # "over"
    /\ phase' = "over" /\ exit' = "killed"
    /\ buffered' = {}
    /\ UNCHANGED <<transport, lifespan, reader, ended, crashed, reported, status, told, overtaken,
                   works, faults, flush, stage, rows, durable>>

\* A full disk or a closed pipe, and back.
StreamChanges ==
    /\ phase # "over" /\ faults < MaxFaults
    /\ faults' = faults + 1
    /\ \E s \in Streams : works' = [works EXCEPT ![s] = ~works[s]]
    /\ UNCHANGED <<transport, phase, lifespan, reader, ended, crashed, reported, status, exit,
                   told, overtaken, flush, stage, rows, buffered, durable>>

HttpStops ==
    /\ phase = "serving" /\ transport = "http" /\ ended = "interrupted"
    /\ phase' = "unwinding"
    /\ UNCHANGED <<transport, lifespan, reader, ended, crashed, reported, status, exit, told,
                   overtaken, works, faults, flush, stage, rows, buffered, durable>>

\* The framework cancels its tasks and leaves the lifespan, whose exit may raise.
Unwind ==
    /\ phase = "unwinding"
    /\ phase' = "reporting"
    /\ lifespan' = IF lifespan = "open" THEN "left" ELSE lifespan
    /\ \/ UNCHANGED <<ended, crashed>>
       \/ lifespan = "open" /\ ended' = "crashed" /\ crashed' = TRUE
    /\ UNCHANGED <<transport, reader, reported, status, exit, told, overtaken, works, faults,
                   flush, stage, rows, buffered, durable>>

-----------------------------------------------------------------------------
(* main's except clauses and its finally *)

\* Mutant: the status is left at the constant it had before ADR-0018.
StatusConstant(ok) == "ok"

\* Mutant: the status is how the serving path ended, which is no exit status.
StatusEnding(ok) == IF ok THEN ended ELSE status

\* The crash is logged first and the status set after: a log line that raises
\* skips the assignment.
StatusAfter(ok) == IF ended = "crashed" /\ ok THEN "software" ELSE status

Report ==
    /\ phase = "reporting"
    /\ \/ ended = "returned" /\ UNCHANGED <<reported, status, buffered, durable>>
       \/ /\ ended \in {"interrupted", "crashed"}
          /\ \E ok \in BOOLEAN :
                /\ LogLine(ok)
                /\ reported' = IF ok THEN "yes" ELSE "raised"
                /\ status' = StatusAfter(ok)
    /\ phase' = "flushing"
    /\ UNCHANGED <<transport, lifespan, reader, ended, crashed, exit, told, overtaken, works,
                   faults, flush, stage, rows>>

\* stdout, then stderr.  A stream that fails raises only if it holds something;
\* stdout's contents are not modelled, and stderr may hold more than audit lines.
FlushStreams ==
    /\ phase = "flushing"
    /\ \/ /\ works["stderr"] \/ buffered = {}
          /\ durable' = durable \cup buffered
          /\ buffered' = {}
          /\ flush' = "ok"
          /\ phase' = "exiting"
       \/ /\ \E s \in Streams : ~works[s]
          /\ flush' = "failed"
          /\ phase' = "leaving"
          /\ UNCHANGED <<buffered, durable>>
    /\ UNCHANGED <<transport, lifespan, reader, ended, crashed, reported, status, exit, told,
                   overtaken, works, faults, stage, rows>>

\* Mutant: main returns its status instead, and sys.exit takes it from there.
ReturnStatus ==
    /\ phase = "exiting"
    /\ phase' = "leaving"
    /\ UNCHANGED <<transport, lifespan, reader, ended, crashed, reported, status, exit, told,
                   overtaken, works, faults, flush, stage, rows, buffered, durable>>

\* os._exit(status): no interpreter shutdown, so what a buffer holds is lost.
ForceExit ==
    /\ phase = "exiting"
    /\ phase' = "over"
    /\ exit' = status
    /\ buffered' = {}
    /\ UNCHANGED <<transport, lifespan, reader, ended, crashed, reported, status, told, overtaken,
                   works, faults, flush, stage, rows, durable>>

\* An exception leaves main: the interpreter first joins the threads that are no
\* daemons, then flushes what it can and exits with a status of its own.
Leave ==
    /\ phase = "leaving"
    /\ \/ reader /\ phase' = "hung" /\ UNCHANGED <<exit, buffered, durable>>
       \/ /\ ~reader
          /\ phase' = "over" /\ exit' = "raised"
          /\ durable' = IF works["stderr"] THEN durable \cup buffered ELSE durable
          /\ buffered' = {}
    /\ UNCHANGED <<transport, lifespan, reader, ended, crashed, reported, status, told, overtaken,
                   works, faults, flush, stage, rows>>

Stopping == HttpStops \/ Unwind \/ Report \/ FlushStreams \/ ForceExit \/ Leave

Call(c) == Record(c) \/ Post(c) \/ Land(c) \/ Answer(c) \/ Outcome(c)

PNext ==
    \/ Refuse \/ Accept \/ Build \/ Open \/ Finish
    \/ \E c \in Calls : Call(c)
    \/ Sigterm \/ Sigkill \/ StreamChanges
    \/ Stopping

PSpec == PInit /\ [][PNext]_pvars

\* Once the process is stopping, its one thread runs on: nothing main does then
\* waits for a peer.  Calls, hosts, Jobvite and signals owe nothing.
FairPSpec == PSpec /\ WF_pvars(Stopping)

-----------------------------------------------------------------------------
(* Properties *)

(* No row without its record: a candidate Jobvite created was approved, and
   that approval's audit line left the process before the POST did, so no
   signal, kill, crash or failing stream can lose it (docs/DESIGN.md's "no
   audit, no write"; _redacting_sink's flush and catch=False). *)
RowsHaveRecords == \A c \in rows : <<c, "before">> \in durable

(* The exit status is the one the run earned (ADR-0018): 70 only after a crash,
   78 only when nothing was served, and 0 after a crash only where the crash
   could not be logged or a signal overtook it. *)
StatusEarned ==
    /\ exit = "software" => crashed
    /\ exit = "config" => ended = "refused" /\ lifespan = "none" /\ durable = {} /\ rows = {}
    /\ exit = "ok" /\ crashed => reported = "raised" \/ overtaken

(* A forced exit costs nothing that teardown owed: by the time os._exit runs the
   lifespan has been left, unless a second signal cut its exit short. *)
TeardownBeforeExit == exit \in {"ok", "software"} /\ lifespan = "open" => overtaken

(* A stop that was asked for happens: after a SIGTERM the process ends, on stdio
   too, unless a flush in main's finally fails or a second signal leaves it,
   since then os._exit is not reached and the reader thread holds the process. *)
StopsWhenTold == told > 0 ~> (phase = "over" \/ flush = "failed" \/ overtaken)

(* ADR-0018: "a crash must not report itself as a clean stop". *)
CrashIsNotClean == crashed => exit # "ok"

=============================================================================
