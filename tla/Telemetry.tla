-------------------------------- MODULE Telemetry --------------------------------
(***************************************************************************)
(* The counters of the server (metrics.c) and the datagrams that carry     *)
(* them to a collector (statsd.c). The counters are added to at interrupt  *)
(* level and in the event loop; once a second the event loop formats,      *)
(* sends and resets them, one after the other. The endpoint is shared with *)
(* the log lines, and what comes back for a datagram that nobody listened  *)
(* for (a port-unreachable) makes the next send fail, whoever it is to.    *)
(***************************************************************************)
EXTENDS Naturals, Sequences

CONSTANTS
  Stages,       \* what metrics_boot_stage is called with
  MaxEvents,    \* bound: what is counted, all counters together
  MaxSent       \* bound: datagrams

ASSUME TelemetryAssumption ==
  Stages \subseteq Nat \ {0} /\ MaxEvents \in Nat /\ MaxSent \in Nat

Counters == {"sessions", "bytes", "frames", "ms_sum", "ms_cnt"}
Sinks == {"metrics", "log"}

\* The order in which metrics_tick reads the counters, and in which it resets them.
Formatted == <<"frames", "sessions", "bytes", "ms_sum", "ms_cnt">>
ResetOrder == <<"sessions", "bytes", "frames", "ms_sum", "ms_cnt">>

VARIABLES
  g,            \* the counters
  boot,         \* g_boot_stage
  adding,       \* g_bytes as the event loop has read it to add to it, or NotAdding
  tick,         \* where the event loop is in metrics_tick
  report,       \* what metrics_tick has formatted
  endpoint,     \* g_state, "unset" before main has looked for the marker file
  logReady,     \* g_log_ready
  sending,      \* the datagram that sd_send_to is sending, or NotSending
  uderr,        \* how many T_UDERRs wait on the endpoint
  \* The network: the port-unreachables on their way, and the sinks that listen.
  icmps, listening,
  datagrams,    \* bound: datagrams so far
  \* History: what there was to count, what the collector was told, and what the
  \* counters, the endpoint or the network are known to miss.
  happened, told, missed,
  toldBoot      \* the last boot stage the collector was told, if none was missed since

mtvars == <<g, boot, adding, tick, report, endpoint, logReady, sending, uderr, icmps, listening,
            datagrams, happened, told, missed, toldBoot>>

NotAdding == MaxEvents + 1
NotSending == [to |-> "nobody"]
Zeros == [c \in Counters |-> 0]
NoTick == [at |-> "away", i |-> 0]

TelemetryInit ==
  /\ g = Zeros /\ boot = 0 /\ adding = NotAdding /\ tick = NoTick /\ report = Zeros
  /\ endpoint = "unset" /\ logReady = FALSE /\ sending = NotSending
  /\ uderr = 0 /\ icmps = 0 /\ listening \in SUBSET Sinks
  /\ datagrams = 0 /\ happened = Zeros /\ told = Zeros /\ missed = Zeros /\ toldBoot = 0

----------------------------------------------------------------------------
(* The counters.                                                             *)

\* metrics_tick has read the counter and will reset it.
WillBeReset(c) ==
  \/ /\ tick.at = "format" /\ \E i \in 1..(tick.i - 1) : Formatted[i] = c
  \/ tick.at = "send"
  \/ /\ tick.at = "reset" /\ \E i \in tick.i..Len(ResetOrder) : ResetOrder[i] = c

Add(f, cs) == [c \in Counters |-> IF c \in cs THEN f[c] + 1 ELSE f[c]]

Total == happened["sessions"] + happened["bytes"] + happened["frames"]

\* metrics_session, metrics_bytes and metrics_frame at interrupt level; a frame takes one
\* unit of time. What comes between the reading and the resetting of a counter is lost, and
\* so is what comes between the reading and the writing of g_bytes in the event loop.
CountAtInterrupt(cs) ==
  /\ Total < MaxEvents /\ endpoint \notin {"unset", "released"}
  /\ g' = Add(g, cs) /\ happened' = Add(happened, cs)
  /\ missed' = Add(missed, {c \in cs : WillBeReset(c) \/ (c = "bytes" /\ adding # NotAdding)})
  /\ UNCHANGED <<boot, adding, tick, report, endpoint, logReady, sending, uderr, icmps,
                 listening, datagrams, told, toldBoot>>

AtLoop ==
  /\ tick = NoTick /\ adding = NotAdding /\ sending = NotSending
  /\ endpoint \notin {"unset", "released"}

\* metrics_bytes in the event loop: the color map that is sent after the synchronised tasks.
ReadBytes ==
  /\ AtLoop /\ Total < MaxEvents
  /\ adding' = g["bytes"]
  /\ UNCHANGED <<g, boot, tick, report, endpoint, logReady, sending, uderr, icmps, listening,
                 datagrams, happened, told, missed, toldBoot>>

WriteBytes ==
  /\ adding # NotAdding
  /\ g' = [g EXCEPT !["bytes"] = adding + 1] /\ happened' = Add(happened, {"bytes"})
  /\ adding' = NotAdding
  /\ UNCHANGED <<boot, tick, report, endpoint, logReady, sending, uderr, icmps, listening,
                 datagrams, told, missed, toldBoot>>

----------------------------------------------------------------------------
(* The datagrams.                                                            *)

\* An address that cannot be parsed leaves the endpoint closed, or the log without a sink.
StatsdOpen == endpoint' \in {"closed", "open", "failed"}
StatsdLogOpen == logReady' \in BOOLEAN

\* Telemetry is armed by a marker file beside the program.
Arm ==
  /\ endpoint = "unset"
  /\ \/ StatsdOpen /\ StatsdLogOpen
     \/ endpoint' = "closed" /\ UNCHANGED logReady
  /\ UNCHANGED <<g, boot, adding, tick, report, sending, uderr, icmps, listening, datagrams,
                 happened, told, missed, toldBoot>>

\* statsd_close, when the program quits.
StatsdClose ==
  /\ AtLoop /\ boot # 0
  /\ endpoint' = "released"
  /\ UNCHANGED <<g, boot, adding, tick, report, logReady, sending, uderr, icmps, listening,
                 datagrams, happened, told, missed, toldBoot>>

\* The datagram is gone: the collector has it, or it is known why it has not.
Delivered ==
  /\ sending' = NotSending
  /\ IF sending.to = "metrics"
     THEN /\ told' = [c \in Counters |-> told[c] + sending.counts[c]]
          /\ toldBoot' = sending.boot
     ELSE UNCHANGED <<told, toldBoot>>
  /\ UNCHANGED missed

NotDelivered ==
  /\ sending' = NotSending
  /\ IF sending.to = "metrics"
     THEN /\ missed' = [c \in Counters |-> missed[c] + sending.counts[c]]
          /\ toldBoot' = 0
     ELSE UNCHANGED <<missed, toldBoot>>
  /\ UNCHANGED told

\* sd_send_to with this datagram, up to the first OTSndUData.
StartSend(to, counts, stage) ==
  /\ datagrams < MaxSent /\ datagrams' = datagrams + 1
  /\ sending' = [to |-> to, counts |-> counts, boot |-> stage, try |-> "first", another |-> FALSE]

\* Without an endpoint nothing is sent.
NoEndpoint ==
  /\ sending # NotSending /\ endpoint # "open"
  /\ NotDelivered
  /\ UNCHANGED <<g, boot, adding, tick, report, endpoint, logReady, uderr, icmps, listening,
                 datagrams, happened>>

\* OTSndUData takes the datagram when nothing waits on the endpoint.
SndUData ==
  /\ sending # NotSending /\ endpoint = "open" /\ uderr = 0 /\ sending.try # "look"
  /\ IF sending.to \in listening
     THEN Delivered /\ UNCHANGED icmps
     ELSE NotDelivered /\ icmps' = icmps + 1
  /\ UNCHANGED <<g, boot, adding, tick, report, endpoint, logReady, uderr, listening, datagrams,
                 happened>>

\* The endpoint does not block: without room for the datagram there is kOTFlowErr, which is
\* only counted.
SndFlowErr ==
  /\ sending # NotSending /\ endpoint = "open" /\ uderr = 0 /\ sending.try # "look"
  /\ NotDelivered
  /\ UNCHANGED <<g, boot, adding, tick, report, endpoint, logReady, uderr, icmps, listening,
                 datagrams, happened>>

\* It returns kOTLookErr when a T_UDERR waits.
SndLookErr ==
  /\ sending # NotSending /\ endpoint = "open" /\ uderr > 0 /\ sending.try = "first"
  /\ sending' = [sending EXCEPT !.try = "look"]
  /\ UNCHANGED <<g, boot, adding, tick, report, endpoint, logReady, uderr, icmps, listening,
                 datagrams, happened, told, missed, toldBoot>>

\* OTLook and OTRcvUDErr; a faulty variant only looks.
LookOnly ==
  /\ sending # NotSending /\ endpoint = "open" /\ sending.try = "look"
  /\ sending' = [sending EXCEPT !.try = "second"]
  /\ UNCHANGED <<g, boot, adding, tick, report, endpoint, logReady, uderr, icmps, listening,
                 datagrams, happened, told, missed, toldBoot>>

\* One T_UDERR is taken from the endpoint, however many wait.
RcvUDErr ==
  /\ sending # NotSending /\ endpoint = "open" /\ sending.try = "look"
  /\ uderr' = uderr - 1
  /\ sending' = [sending EXCEPT !.try = "second", !.another = uderr' > 0]
  /\ UNCHANGED <<g, boot, adding, tick, report, endpoint, logReady, icmps, listening,
                 datagrams, happened, told, missed, toldBoot>>

\* The second attempt is the last. It may only find a T_UDERR when another one waited
\* behind the first, or came since.
GiveUp ==
  /\ sending # NotSending /\ endpoint = "open" /\ uderr > 0 /\ sending.try = "second"
  /\ IF sending.another
     THEN NotDelivered
     ELSE sending' = NotSending /\ UNCHANGED <<told, missed, toldBoot>>
  /\ UNCHANGED <<g, boot, adding, tick, report, endpoint, logReady, uderr, icmps, listening,
                 datagrams, happened>>

\* The network and the collector. Whether errors queue on the endpoint, or one of them
\* stands for the next, is up to Open Transport, and an answer of the network may get lost.
PortUnreachable ==
  /\ icmps > 0 /\ endpoint = "open"
  /\ icmps' = icmps - 1 /\ uderr' \in {uderr, uderr + 1}
  /\ sending' = IF sending = NotSending \/ sending.try # "second"
                THEN sending ELSE [sending EXCEPT !.another = uderr' > 0]
  /\ UNCHANGED <<g, boot, adding, tick, report, endpoint, logReady, listening, datagrams,
                 happened, told, missed, toldBoot>>

SinkStartsOrStops ==
  /\ \E sink \in Sinks :
       listening' = IF sink \in listening THEN listening \ {sink} ELSE listening \cup {sink}
  /\ UNCHANGED <<g, boot, adding, tick, report, endpoint, logReady, sending, uderr, icmps,
                 datagrams, happened, told, missed, toldBoot>>

----------------------------------------------------------------------------
(* The event loop.                                                           *)

\* metrics_boot_stage sends the stage at once.
BootStage(stage) ==
  /\ AtLoop
  /\ boot' = stage
  /\ StartSend("metrics", Zeros, stage)
  /\ UNCHANGED <<g, adding, tick, report, endpoint, logReady, uderr, icmps, listening,
                 happened, told, missed, toldBoot>>

\* statsd_log, for a line of the deferred output.
StatsdLog ==
  /\ AtLoop /\ logReady
  /\ StartSend("log", Zeros, 0)
  /\ UNCHANGED <<g, boot, adding, tick, report, endpoint, logReady, uderr, icmps, listening,
                 happened, told, missed, toldBoot>>

\* metrics_tick, when a second has passed.
TickStart ==
  /\ AtLoop /\ boot # 0 /\ datagrams < MaxSent
  /\ tick' = [at |-> "format", i |-> 1] /\ report' = Zeros
  /\ UNCHANGED <<g, boot, adding, endpoint, logReady, sending, uderr, icmps, listening,
                 datagrams, happened, told, missed, toldBoot>>

\* Without timed frames there is no average.
TickFormat ==
  /\ tick.at = "format"
  /\ report' = [report EXCEPT ![Formatted[tick.i]] =
                  IF Formatted[tick.i] = "ms_sum" /\ g["ms_cnt"] = 0 THEN 0
                  ELSE g[Formatted[tick.i]]]
  /\ tick' = IF tick.i < Len(Formatted) THEN [tick EXCEPT !.i = tick.i + 1]
             ELSE [at |-> "send", i |-> 1]
  /\ UNCHANGED <<g, boot, adding, endpoint, logReady, sending, uderr, icmps, listening,
                 datagrams, happened, told, missed, toldBoot>>

TickSend ==
  /\ tick = [at |-> "send", i |-> 1]
  /\ StartSend("metrics", report, boot)
  /\ tick' = [at |-> "send", i |-> 2]
  /\ UNCHANGED <<g, boot, adding, report, endpoint, logReady, uderr, icmps, listening,
                 happened, told, missed, toldBoot>>

\* The counters are reset once the datagram is gone, whatever became of it.
TickReset ==
  /\ \/ tick = [at |-> "send", i |-> 2] /\ sending = NotSending
     \/ tick.at = "reset"
  /\ LET i == IF tick.at = "send" THEN 1 ELSE tick.i IN
     /\ g' = [g EXCEPT ![ResetOrder[i]] = 0]
     /\ tick' = IF i < Len(ResetOrder) THEN [at |-> "reset", i |-> i + 1] ELSE NoTick
  /\ UNCHANGED <<boot, adding, report, endpoint, logReady, sending, uderr, icmps, listening,
                 datagrams, happened, told, missed, toldBoot>>

TelemetryNext ==
  \/ \E cs \in {{"sessions"}, {"bytes"}, {"frames", "ms_sum", "ms_cnt"}} : CountAtInterrupt(cs)
  \/ ReadBytes \/ WriteBytes
  \/ Arm \/ StatsdClose
  \/ NoEndpoint \/ SndUData \/ SndFlowErr \/ SndLookErr \/ RcvUDErr \/ GiveUp
  \/ PortUnreachable \/ SinkStartsOrStops
  \/ \E stage \in Stages : BootStage(stage)
  \/ StatsdLog
  \/ TickStart \/ TickFormat \/ TickSend \/ TickReset

TelemetrySpec == TelemetryInit /\ [][TelemetryNext]_mtvars

----------------------------------------------------------------------------

\* What metrics_tick has still to tell: what it has formatted and not sent, or else the
\* counter as it stands.
ToTell(c) ==
  IF c = "bytes" /\ adding # NotAdding THEN adding
  ELSE IF ~WillBeReset(c) THEN g[c]
  ELSE IF tick.at = "format" \/ tick = [at |-> "send", i |-> 1] \/ sending # NotSending
       THEN report[c] ELSE 0

\* Each session, byte and frame is told to the collector once, or still to be told, unless
\* it came while its counter was being read and reset, or the collector did not listen, or
\* the endpoint had no room, or a second port-unreachable waited behind the one that was
\* cleared. In particular one error of one datagram, of the log's even, never silences
\* those after it: each datagram takes an error away before it fails.
ToldOnce ==
  \A c \in {"sessions", "bytes", "frames"} :
    happened[c] = told[c] + missed[c] + ToTell(c)

\* The average time of a frame is never more than what a frame has taken. It does not hold:
\* a frame between the resets of the sum and of the count leaves its time in the sum.
AverageIsATime ==
  tick = [at |-> "send", i |-> 1] => report["ms_sum"] <= report["ms_cnt"]
=============================================================================
