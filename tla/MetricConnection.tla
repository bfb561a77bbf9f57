-------------------------- MODULE MetricConnection --------------------------
(***************************************************************************)
(* metric.Connection (internal/wavefront/metric/connection.go) with the    *)
(* two goroutines that use it: the reconciler, which calls Connect, Send   *)
(* and Close, and flushLoop, which every minute takes a batch under        *)
(* Connection.mu and sends it after unlocking.  Connect and Close stop a   *)
(* sender of the Wavefront SDK while they hold the mutex; the stop takes   *)
(* two steps (internal/lines.go, Stop: drain the buffer, then drop it) and *)
(* the flush loop, which does not hold the mutex, may run between them:    *)
(* its report may end after Close has returned, and it may hang.           *)
(*                                                                         *)
(* The SDK's sender is reduced to its point handler, the only one a gauge  *)
(* goes through: a buffer of lines, a background flush and Stop.           *)
(***************************************************************************)
EXTENDS MetricGauges, Naturals

CONSTANTS
    RawAddrs,       \* addresses as the caller writes them
    Normalize,      \* normalizeAddr: adds "http://" where no scheme is given
    NoSender,
    MaxSenders,     \* bound: senders ever created
    MaxReportFaults \* bound: reports the proxy refuses

ASSUME ConnectionAssumption ==
    /\ Normalize \in [RawAddrs -> Addrs]
    /\ MaxSenders \in Nat
    /\ MaxReportFaults \in Nat
    /\ NoSender \notin 1..MaxSenders

VARIABLES
    offered,        \* history: the points current at some moment of the session
    delivered,      \* history: those of them the proxy received in the session
    sender,         \* Connection.sender
    senders,        \* every sender the factory can hand out
    rpc,            \* the reconciler's place inside Connect or Close
    target,         \* the address it is connecting to, NoAddr in Close
    fpc,            \* the flush loop's place in sendBatch
    batchSender,    \* extractBatch's results
    batch,
    taken,          \* the lines in hand while a flush reports them
    reportFaults

connVars == <<addr, latest, offered, delivered, sender, senders, rpc, target,
              fpc, batchSender, batch, taken, reportFaults>>
flushVars == <<fpc, batchSender, batch, taken>>

SenderIds == 1..MaxSenders
NoBatch == [n \in Names |-> NoValue]
Unborn == [state |-> "unborn", addr |-> NoAddr, buffer |-> {}]

TypeOK ==
    /\ GaugesTypeOK
    /\ offered \subseteq Points
    /\ delivered \subseteq Points
    /\ sender \in SenderIds \cup {NoSender}
    /\ senders \in [SenderIds -> [state : {"unborn", "open", "drained", "stopped"},
                                  addr : Addrs \cup {NoAddr},
                                  buffer : SUBSET Points]]
    /\ rpc \in {"idle", "closing", "dialing"}
    /\ target \in Addrs \cup {NoAddr}
    /\ fpc \in {"idle", "sending", "taking", "reporting"}
    /\ batchSender \in SenderIds \cup {NoSender}
    /\ batch \in [Names -> Values \cup {NoValue}]
    /\ taken \subseteq Points
    /\ reportFaults \in 0..MaxReportFaults

Init ==
    /\ GaugesInit
    /\ offered = {}
    /\ delivered = {}
    /\ sender = NoSender
    /\ senders = [s \in SenderIds |-> Unborn]
    /\ rpc = "idle"
    /\ target = NoAddr
    /\ fpc = "idle"
    /\ batchSender = NoSender
    /\ batch = NoBatch
    /\ taken = {}
    /\ reportFaults = 0

-----------------------------------------------------------------------------
(* The external sender.                                                    *)

(* Lines are taken from the buffer and reported (lh.report): the proxy     *)
(* accepts them, or refuses them and they go back into the buffer.  Stop   *)
(* waits for the ticker and calls FlushAll itself, so their reports are    *)
(* over before it goes on, and nobody can tell them from one step.         *)
ReportBuffer(s, next) ==
    \/ /\ delivered' = delivered \cup senders[s].buffer
       /\ senders' = [senders EXCEPT ![s].buffer = {}, ![s].state = next]
       /\ UNCHANGED reportFaults
    \/ /\ reportFaults < MaxReportFaults
       /\ reportFaults' = reportFaults + 1
       /\ senders' = [senders EXCEPT ![s].state = next]
       /\ UNCHANGED delivered

(* HandleLine: the buffer takes the line; a stopped handler drops it.      *)
HandleLine(s, p) ==
    IF senders[s].state = "stopped"
    THEN UNCHANGED senders
    ELSE senders' = [senders EXCEPT ![s].buffer = @ \cup {p}]

(* lh.mtx is held from the moment the flush loop has read the length of    *)
(* the buffer to the end of its report.                                    *)
LineMutexFree(s) == ~(fpc \in {"taking", "reporting"} /\ batchSender = s)

(* The handler's own ticker flushes the buffer until Stop has ended it.    *)
SenderTick(s) ==
    /\ senders[s].state = "open"
    /\ LineMutexFree(s)
    /\ senders[s].buffer # {}
    /\ ReportBuffer(s, "open")
    /\ UNCHANGED <<addr, latest, offered, sender, rpc, target, flushVars>>

-----------------------------------------------------------------------------
(* The reconciler: Connection.mu is held while rpc is not "idle".          *)

MutexFree == rpc = "idle"
Connected == sender # NoSender

(* Mutant: Connect forgets to close the old sender.                        *)
ConnectWithoutClose(raw) ==
    /\ MutexFree
    /\ addr # Normalize[raw]
    /\ target' = Normalize[raw]
    /\ rpc' = "dialing"
    /\ UNCHANGED <<addr, latest, offered, delivered, sender, senders, flushVars, reportFaults>>

(* Connect to another address: the old sender is closed first.  To connect *)
(* to the address one has is the early return, a stuttering step.          *)
CallConnect(raw) ==
    /\ MutexFree
    /\ addr # Normalize[raw]
    /\ target' = Normalize[raw]
    /\ rpc' = IF Connected THEN "closing" ELSE "dialing"
    /\ UNCHANGED <<addr, latest, offered, delivered, sender, senders, flushVars, reportFaults>>

(* Mutant: Close forgets the sender without closing it.                    *)
CloseWithoutStop ==
    /\ MutexFree
    /\ Connected
    /\ sender' = NoSender
    /\ addr' = NoAddr
    /\ offered' = {}
    /\ delivered' = {}
    /\ UNCHANGED <<latest, senders, rpc, target, flushVars, reportFaults>>

(* Close of a connection that is not connected changes nothing.            *)
CallClose ==
    /\ MutexFree
    /\ Connected
    /\ target' = NoAddr
    /\ rpc' = "closing"
    /\ UNCHANGED <<addr, latest, offered, delivered, sender, senders, flushVars, reportFaults>>

(* The first half of sender.Close: the background flush ends and FlushAll  *)
(* reports what is buffered.                                               *)
Drain ==
    /\ rpc = "closing"
    /\ senders[sender].state = "open"
    /\ LineMutexFree(sender)
    /\ ReportBuffer(sender, "drained")
    /\ UNCHANGED <<addr, latest, offered, sender, rpc, target, flushVars>>

(* Mutants: a Close that forgets the address or the sender it had.         *)
KeepAddr == sender' = NoSender /\ addr' = addr
KeepSender == UNCHANGED <<sender, addr>>

(* The second half drops the buffer, without lh.mtx; then the connection   *)
(* forgets the sender and its address.                                     *)
ForgetSender ==
    /\ sender' = NoSender
    /\ addr' = NoAddr

CloseSender ==
    /\ rpc = "closing"
    /\ senders[sender].state = "drained"
    /\ senders' = [senders EXCEPT ![sender].state = "stopped", ![sender].buffer = {}]
    /\ ForgetSender
    /\ offered' = {}
    /\ delivered' = {}
    /\ rpc' = IF target = NoAddr THEN "idle" ELSE "dialing"
    /\ UNCHANGED <<latest, target, flushVars, reportFaults>>

(* Mutant: the address is set before newSender has succeeded.              *)
DialFailsWithAddr ==
    /\ rpc = "dialing"
    /\ rpc' = "idle"
    /\ addr' = target
    /\ UNCHANGED <<latest, offered, delivered, sender, senders, target, flushVars, reportFaults>>

(* newSender failed: Connect returns the error with no sender.             *)
DialFails ==
    /\ rpc = "dialing"
    /\ rpc' = "idle"
    /\ UNCHANGED <<addr, latest, offered, delivered, sender, senders, target, flushVars, reportFaults>>

Dial ==
    /\ rpc = "dialing"
    /\ \E s \in SenderIds :
        /\ senders[s].state = "unborn"
        /\ \A r \in SenderIds : r < s => senders[r].state # "unborn"
        /\ senders' = [senders EXCEPT ![s].state = "open", ![s].addr = target]
        /\ sender' = s
    /\ addr' = target
    /\ UNCHANGED latest
    /\ offered' = Current'
    /\ delivered' = {}
    /\ rpc' = "idle"
    /\ UNCHANGED <<target, flushVars, reportFaults>>

(* Mutant: Send hands its points to the sender instead of keeping them.    *)
SendAtOnce(report) ==
    /\ MutexFree
    /\ Send(report)
    /\ offered' = offered \cup Current'
    /\ IF Connected
       THEN senders' = [senders EXCEPT ![sender].buffer =
                @ \cup {[name |-> n, value |-> report[n]] : n \in DOMAIN report}]
       ELSE UNCHANGED senders
    /\ UNCHANGED <<delivered, sender, rpc, target, flushVars, reportFaults>>

CallSend(report) ==
    /\ MutexFree
    /\ Send(report)
    /\ offered' = offered \cup Current'
    /\ UNCHANGED <<delivered, sender, senders, rpc, target, flushVars, reportFaults>>

-----------------------------------------------------------------------------
(* The flush loop.                                                         *)

(* extractBatch copies the map and the sender under the mutex.  Without a  *)
(* sender, sendBatch returns at once, a stuttering step.                   *)
ExtractBatch ==
    /\ fpc = "idle"
    /\ MutexFree
    /\ Connected
    /\ fpc' = "sending"
    /\ batchSender' = sender
    /\ batch' = latest
    /\ UNCHANGED <<addr, latest, offered, delivered, sender, senders, rpc, target, taken,
                   reportFaults>>

(* Mutant: a point is sent for every name, in the batch or not.            *)
SendAnyMetric(n) ==
    /\ fpc = "sending"
    /\ HandleLine(batchSender, [name |-> n, value |-> batch[n]])
    /\ batch' = [batch EXCEPT ![n] = NoValue]
    /\ UNCHANGED <<addr, latest, offered, delivered, sender, rpc, target, fpc, batchSender, taken,
                   reportFaults>>

(* SendMetric for one point of the batch, in no particular order (a map);  *)
(* an error is logged and the loop goes on.                                *)
SendMetric(n) ==
    /\ fpc = "sending"
    /\ batch[n] # NoValue
    /\ HandleLine(batchSender, [name |-> n, value |-> batch[n]])
    /\ batch' = [batch EXCEPT ![n] = NoValue]
    /\ UNCHANGED <<addr, latest, offered, delivered, sender, rpc, target, fpc, batchSender, taken,
                   reportFaults>>

(* Mutant: sendBatch does not flush the sender.                            *)
NoFlush ==
    /\ fpc = "sending"
    /\ batch = NoBatch
    /\ fpc' = "idle" /\ batchSender' = NoSender
    /\ UNCHANGED <<addr, latest, offered, delivered, sender, senders, rpc, target, batch, taken,
                   reportFaults>>

(* sender.Flush reads the length of the buffer, 0 for one that is dropped. *)
FlushSender ==
    /\ fpc = "sending"
    /\ batch = NoBatch
    /\ IF senders[batchSender].buffer = {}
       THEN fpc' = "idle" /\ batchSender' = NoSender
       ELSE fpc' = "taking" /\ UNCHANGED batchSender
    /\ UNCHANGED <<addr, latest, offered, delivered, sender, senders, rpc, target, batch, taken,
                   reportFaults>>

(* ... and then receives that many lines from it ...                       *)
Take ==
    /\ fpc = "taking"
    /\ senders[batchSender].state # "stopped"
    /\ fpc' = "reporting"
    /\ taken' = senders[batchSender].buffer
    /\ senders' = [senders EXCEPT ![batchSender].buffer = {}]
    /\ UNCHANGED <<addr, latest, offered, delivered, sender, rpc, target, batchSender, batch,
                   reportFaults>>

(* The lines in hand are those of a session that is over.                  *)
Late == IF fpc = "reporting" /\ batchSender # sender THEN taken ELSE {}

(* ... and reports them.  The session they were taken in may have ended by *)
(* now, and then they arrive at the proxy of that session.                 *)
Accepted ==
    /\ delivered' = delivered \cup (taken \ Late)
    /\ UNCHANGED <<senders, reportFaults>>

(* bufferLines after a refused report: a stopped handler drops the lines.  *)
Refused ==
    /\ reportFaults < MaxReportFaults
    /\ reportFaults' = reportFaults + 1
    /\ IF senders[batchSender].state = "stopped"
       THEN UNCHANGED senders
       ELSE senders' = [senders EXCEPT ![batchSender].buffer = @ \cup taken]
    /\ UNCHANGED delivered

FlushReports ==
    /\ fpc = "reporting"
    /\ Accepted \/ Refused
    /\ taken' = {}
    /\ fpc' = "idle"
    /\ batchSender' = NoSender
    /\ UNCHANGED <<addr, latest, offered, sender, rpc, target, batch>>

(* Stop dropped the buffer before they were received: the flush loop       *)
(* receives from a nil channel and never returns.                          *)
Hung == fpc = "taking" /\ senders[batchSender].state = "stopped"

-----------------------------------------------------------------------------
Reconciler ==
    \/ \E raw \in RawAddrs : CallConnect(raw)
    \/ CallClose
    \/ Drain
    \/ CloseSender
    \/ DialFails
    \/ Dial
    \/ \E report \in Reports : CallSend(report)

FlushLoop ==
    \/ ExtractBatch
    \/ \E n \in Names : SendMetric(n)
    \/ FlushSender
    \/ Take
    \/ FlushReports

Next ==
    \/ Reconciler
    \/ FlushLoop
    \/ \E s \in SenderIds : SenderTick(s)

Spec == Init /\ [][Next]_connVars

(* The flush loop's ticker never stops and the runtime schedules every     *)
(* goroutine; a call the reconciler has begun goes on, but nothing obliges *)
(* it to begin one.                                                        *)
Fairness ==
    /\ WF_connVars(FlushLoop)
    /\ WF_connVars(Drain \/ CloseSender \/ Dial \/ DialFails)

FairSpec == Spec /\ Fairness

-----------------------------------------------------------------------------
(* The connection's address, its sender and the sender's life agree: there *)
(* is an address exactly when there is a sender, the sender was made for   *)
(* that address, and outside Close it is open.  Were the address left      *)
(* behind by a Close, the next Connect to it would return early with no    *)
(* sender and the gauges would silently stop.                              *)
AddrMatchesSender ==
    /\ (addr = NoAddr) = (sender = NoSender)
    /\ sender # NoSender =>
        /\ senders[sender].addr = addr
        /\ senders[sender].state = "open" \/ (rpc = "closing" /\ senders[sender].state = "drained")

(* Every sender but the current one is stopped.  A sender that is dropped  *)
(* without Close leaks its goroutine, and one that is closed twice blocks  *)
(* the second Close for ever while the mutex is held.                      *)
NoSenderLeak ==
    \A s \in SenderIds : s # sender => senders[s].state \in {"unborn", "stopped"}

(* Whatever the flush loop still sends with a batch taken before a Close,  *)
(* what a session delivers are points of that session; and while a report  *)
(* of an earlier session is under way it delivers nothing.                 *)
DeliversThisSession ==
    /\ delivered \subseteq offered
    /\ Late # {} => delivered = {}

(* The connection implements the promise of MetricSink: at most one report *)
(* outlasts its session, and it holds only points of that session.         *)
Sink == INSTANCE MetricSink WITH late <- Late
ImplementsSink == Sink!SinkSpec

(* The flush loop blocks for ever only on a sender that is stopped, so the *)
(* reconciler, which needs the mutex and the current sender, always gets   *)
(* out of Connect and Close.                                               *)
CallsReturn == rpc # "idle" ~> rpc = "idle"

(* What a hang costs: there is one flush loop and nothing ends it, so no   *)
(* session of this process, however often the operator reconnects, gets    *)
(* another gauge.                                                          *)
HangIsFinal == [][Hung => Hung' /\ delivered' = {}]_connVars

(* As long as the flush loop is not stuck in a stopped sender, a gauge     *)
(* that keeps its value in a session is delivered: it is so whatever the   *)
(* proxy refused before (finitely often), and whoever reconnected.         *)
CurrentValueArrives ==
    [](~Hung) =>
        \A p \in Points :
            p \in Current ~> (p \in delivered \/ p \notin Current)
=============================================================================
