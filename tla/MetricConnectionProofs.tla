----------------------- MODULE MetricConnectionProofs -----------------------
(***************************************************************************)
(* MetricConnection implements MetricSink for every set of addresses,      *)
(* gauges, values and senders and every number of refused reports.         *)
(*                                                                         *)
(* The inductive invariant says where the points are that may still reach  *)
(* a proxy: in the buffer of the current sender, in a batch the flush loop *)
(* took for it, or among the lines it reports.  They are all points of the *)
(* session, unless the report is one of a sender that has been stopped;    *)
(* and then, as only the flush loop fills a buffer, all buffers are empty. *)
(***************************************************************************)
EXTENDS MetricConnection, TLAPS

CallShape ==
    /\ rpc = "closing" => sender # NoSender
    /\ rpc = "dialing" => sender = NoSender /\ target # NoAddr

BatchShape ==
    fpc # "idle" => /\ batchSender # NoSender
                    /\ senders[batchSender].state # "unborn"

BuffersOffered ==
    \A s \in SenderIds : IF s = sender
                         THEN senders[s].buffer \subseteq offered
                         ELSE senders[s].buffer = {}

BatchOffered ==
    fpc = "sending" /\ batchSender = sender =>
        \A n \in Names : batch[n] # NoValue => [name |-> n, value |-> batch[n]] \in offered

TakenOffered ==
    /\ fpc # "reporting" => taken = {}
    /\ fpc = "reporting" /\ batchSender = sender => taken \subseteq offered

LateAlone ==
    fpc = "reporting" /\ batchSender # sender =>
        delivered = {} /\ \A s \in SenderIds : senders[s].buffer = {}

DeliveredOffered == delivered \subseteq offered

CurrentOffered == Current \subseteq offered

IInv ==
    /\ TypeOK
    /\ AddrMatchesSender
    /\ NoSenderLeak
    /\ CallShape
    /\ BatchShape
    /\ BuffersOffered
    /\ BatchOffered
    /\ TakenOffered
    /\ LateAlone
    /\ CurrentOffered
    /\ DeliveredOffered

-----------------------------------------------------------------------------
(* The points a flush would send are points.                               *)
LEMMA CurrentType ==
    ASSUME GaugesTypeOK PROVE Current \subseteq Points
BY DEF GaugesTypeOK, Current, Points

(* A report is reported by somebody or refused: what it does to the        *)
(* sender s and to the points that were delivered.                         *)
LEMMA ReportBufferType ==
    ASSUME TypeOK, NEW s \in SenderIds,
           NEW next \in {"unborn", "open", "drained", "stopped"}, ReportBuffer(s, next)
    PROVE  /\ senders' \in [SenderIds -> [state : {"unborn", "open", "drained", "stopped"},
                                          addr : Addrs \cup {NoAddr},
                                          buffer : SUBSET Points]]
           /\ delivered' \subseteq Points
           /\ delivered' \subseteq delivered \cup senders[s].buffer
           /\ delivered \subseteq delivered'
           /\ reportFaults' \in 0..MaxReportFaults
           /\ senders'[s].state = next
           /\ senders'[s].addr = senders[s].addr
           /\ senders'[s].buffer \subseteq senders[s].buffer
           /\ \A r \in SenderIds : r # s => senders'[r] = senders[r]
BY ConnectionAssumption DEF TypeOK, ReportBuffer

(* The type invariant holds for every value of the constants: the model's  *)
(* bookkeeping of senders, buffers and batches is never out of range.      *)
LEMMA TypeInit == Init => TypeOK
BY GaugesAssumption, ConnectionAssumption
   DEF Init, GaugesInit, TypeOK, GaugesTypeOK, Unborn, NoBatch

(* Every step keeps the types.                                             *)
LEMMA TypeStep == IInv /\ [Next]_connVars => TypeOK'
<1> SUFFICES ASSUME IInv, [Next]_connVars PROVE TypeOK'
  OBVIOUS
<1>0. TypeOK /\ CallShape /\ BatchShape
  BY DEF IInv
<1> USE ConnectionAssumption DEF SenderIds
<1>1. ASSUME NEW raw \in RawAddrs, CallConnect(raw) PROVE TypeOK'
  BY <1>0, <1>1 DEF CallConnect, TypeOK, GaugesTypeOK, flushVars
<1>2. CASE CallClose
  BY <1>0, <1>2 DEF CallClose, TypeOK, GaugesTypeOK, flushVars
<1>3. CASE Drain
  <2>1. sender \in SenderIds
    BY <1>0, <1>3 DEF Drain, TypeOK, CallShape
  <2> QED BY <1>0, <1>3, <2>1, ReportBufferType DEF Drain, TypeOK, GaugesTypeOK, flushVars
<1>4. CASE CloseSender
  BY <1>0, <1>4 DEF CloseSender, ForgetSender, TypeOK, GaugesTypeOK, flushVars
<1>5. CASE DialFails
  BY <1>0, <1>5 DEF DialFails, TypeOK, GaugesTypeOK, flushVars
<1>6. CASE Dial
  <2>1. Current' \subseteq Points
    BY <1>0, <1>6, CurrentType DEF Dial, TypeOK, GaugesTypeOK, Current, Points
  <2>2. PICK s \in SenderIds :
            /\ senders' = [senders EXCEPT ![s].state = "open", ![s].addr = target]
            /\ sender' = s
    BY <1>6 DEF Dial
  <2>3. senders' \in [SenderIds -> [state : {"unborn", "open", "drained", "stopped"},
                                    addr : Addrs \cup {NoAddr},
                                    buffer : SUBSET Points]]
    BY <1>0, <2>2 DEF TypeOK
  <2> QED BY <1>0, <1>6, <2>1, <2>2, <2>3 DEF Dial, TypeOK, GaugesTypeOK, flushVars
<1>7. ASSUME NEW report \in Reports, CallSend(report) PROVE TypeOK'
  <2>1. latest' \in [Names -> Values \cup {NoValue}] /\ addr' = addr
    BY <1>0, <1>7 DEF CallSend, Send, Reports, TypeOK, GaugesTypeOK
  <2>2. Current' \subseteq Points
    BY <1>0, <2>1 DEF TypeOK, GaugesTypeOK, Current, Points
  <2> QED BY <1>0, <1>7, <2>1, <2>2 DEF CallSend, Send, TypeOK, GaugesTypeOK, flushVars
<1>8. CASE ExtractBatch
  BY <1>0, <1>8 DEF ExtractBatch, TypeOK, GaugesTypeOK
<1>9. ASSUME NEW n \in Names, SendMetric(n) PROVE TypeOK'
  <2>1. [name |-> n, value |-> batch[n]] \in Points
    BY <1>0, <1>9 DEF SendMetric, TypeOK, Points
  <2>2. senders' \in [SenderIds -> [state : {"unborn", "open", "drained", "stopped"},
                                    addr : Addrs \cup {NoAddr},
                                    buffer : SUBSET Points]]
    <3> DEFINE p == [name |-> n, value |-> batch[n]]
    <3>1. CASE senders' = senders
      BY <1>0, <3>1 DEF TypeOK
    <3>2. CASE senders' = [senders EXCEPT ![batchSender].buffer = @ \cup {p}]
      <4>1. p \in Points
        BY <2>1
      <4> HIDE DEF p
      <4> QED BY <1>0, <3>2, <4>1 DEF TypeOK
    <3> QED BY <1>9, <3>1, <3>2 DEF SendMetric, HandleLine
  <2>3. batch' \in [Names -> Values \cup {NoValue}]
    BY <1>0, <1>9 DEF SendMetric, TypeOK
  <2>4. UNCHANGED <<addr, latest, offered, delivered, sender, rpc, target, fpc, batchSender, taken,
                    reportFaults>>
    BY <1>9 DEF SendMetric
  <2> QED BY <1>0, <2>2, <2>3, <2>4 DEF TypeOK, GaugesTypeOK
<1>10. CASE FlushSender
  BY <1>0, <1>10 DEF FlushSender, TypeOK, GaugesTypeOK
<1>11. CASE Take
  <2>1. batchSender \in SenderIds
    BY <1>0, <1>11 DEF Take, TypeOK, BatchShape
  <2> QED BY <1>0, <1>11, <2>1 DEF Take, TypeOK, GaugesTypeOK
<1>12. CASE FlushReports
  <2>1. batchSender \in SenderIds
    BY <1>0, <1>12 DEF FlushReports, TypeOK, BatchShape
  <2>2. /\ senders' \in [SenderIds -> [state : {"unborn", "open", "drained", "stopped"},
                                       addr : Addrs \cup {NoAddr},
                                       buffer : SUBSET Points]]
        /\ delivered' \subseteq Points
        /\ reportFaults' \in 0..MaxReportFaults
    BY <1>0, <1>12, <2>1 DEF FlushReports, Accepted, Refused, TypeOK
  <2> QED BY <1>0, <1>12, <2>2 DEF FlushReports, TypeOK, GaugesTypeOK
<1>13. ASSUME NEW s \in SenderIds, SenderTick(s) PROVE TypeOK'
  BY <1>0, <1>13, ReportBufferType DEF SenderTick, TypeOK, GaugesTypeOK, flushVars
<1>14. CASE UNCHANGED connVars
  BY <1>0, <1>14 DEF connVars, TypeOK, GaugesTypeOK
<1> QED
  BY <1>1, <1>2, <1>3, <1>4, <1>5, <1>6, <1>7, <1>8, <1>9, <1>10, <1>11, <1>12, <1>13, <1>14
  DEF Next, Reconciler, FlushLoop

-----------------------------------------------------------------------------
(* The inductive invariant holds initially: there is no sender and nothing *)
(* was sent.                                                               *)
LEMMA InvInit == Init => IInv
<1> SUFFICES ASSUME Init PROVE IInv
  OBVIOUS
<1>1. TypeOK
  BY TypeInit
<1>2. sender = NoSender /\ NoSender \notin SenderIds /\ senders = [s \in SenderIds |-> Unborn]
  BY ConnectionAssumption DEF Init, SenderIds
<1>3. AddrMatchesSender /\ NoSenderLeak /\ CallShape /\ BatchShape /\ BatchOffered
      /\ TakenOffered /\ LateAlone
  BY <1>2 DEF Init, GaugesInit, AddrMatchesSender, NoSenderLeak, CallShape,
              BatchShape, BatchOffered, TakenOffered, LateAlone, Unborn
<1>4. BuffersOffered
  BY <1>2 DEF BuffersOffered, Unborn
<1>5. CurrentOffered /\ DeliveredOffered
  BY DEF Init, GaugesInit, CurrentOffered, DeliveredOffered, Current
<1> QED BY <1>1, <1>3, <1>4, <1>5 DEF IInv

(* The points of an unchanged address and map are unchanged.               *)
LEMMA CurrentSame ==
    addr' = addr /\ latest' = latest => Current' = Current
BY DEF Current

(* The current sender reports or gets its lines back: its buffer holds no  *)
(* more than before, and what left it are points of the session.  If a     *)
(* report of an earlier session is under way the buffer is empty.          *)
LEMMA ReportStep ==
    ASSUME IInv, NEW next \in {"open", "drained"}, sender \in SenderIds,
           ReportBuffer(sender, next), LineMutexFree(sender),
           UNCHANGED <<addr, latest, offered, sender, flushVars>>
    PROVE  /\ NoSenderLeak' /\ BuffersOffered' /\ CurrentOffered' /\ DeliveredOffered'
           /\ TakenOffered' /\ LateAlone'
           /\ senders'[sender].state = next
           /\ senders'[sender].addr = senders[sender].addr
           /\ \A r \in SenderIds : r # sender => senders'[r] = senders[r]
<1> USE ReportBufferType DEF IInv
<1>1. NoSenderLeak'
  BY DEF NoSenderLeak, SenderIds
<1>2. BuffersOffered'
  BY DEF BuffersOffered, SenderIds
<1>3. CurrentOffered'
  BY CurrentSame DEF CurrentOffered
<1>4. DeliveredOffered'
  BY DEF DeliveredOffered, BuffersOffered
<1>5. TakenOffered'
  BY DEF TakenOffered, LineMutexFree, flushVars
<1>6. LateAlone'
  BY DEF LateAlone, LineMutexFree, flushVars, SenderIds
<1> QED BY <1>1, <1>2, <1>3, <1>4, <1>5, <1>6

(* The inductive invariant is inductive: one step per action, and under it *)
(* one per conjunct the action disturbs.                                   *)
LEMMA InvStep == IInv /\ [Next]_connVars => IInv'
<1> SUFFICES ASSUME IInv, [Next]_connVars PROVE IInv'
  OBVIOUS
<1>0. TypeOK'
  BY TypeStep
<1>a. TypeOK /\ AddrMatchesSender /\ NoSenderLeak /\ CallShape /\ BatchShape
      /\ BuffersOffered /\ BatchOffered /\ TakenOffered /\ LateAlone
      /\ CurrentOffered /\ DeliveredOffered
  BY DEF IInv
<1>b. NoSender \notin SenderIds /\ NoAddr \notin Addrs /\ NoValue \notin Values
  BY GaugesAssumption, ConnectionAssumption DEF SenderIds
<1>1. ASSUME NEW raw \in RawAddrs, CallConnect(raw) PROVE IInv'
  <2>1. AddrMatchesSender' /\ NoSenderLeak' /\ CallShape' /\ BatchShape'
    BY <1>1, <1>a, <1>b, ConnectionAssumption
    DEF CallConnect, MutexFree, Connected, flushVars, AddrMatchesSender, NoSenderLeak,
        CallShape, BatchShape
  <2>2. BuffersOffered' /\ BatchOffered' /\ DeliveredOffered'
    BY <1>1, <1>a DEF CallConnect, flushVars, BuffersOffered, BatchOffered, DeliveredOffered
  <2>3. CurrentOffered'
    BY <1>1, <1>a, CurrentSame DEF CallConnect, CurrentOffered
  <2>4. TakenOffered' /\ LateAlone'
    BY <1>1, <1>a DEF CallConnect, flushVars, TakenOffered, LateAlone
  <2> QED BY <1>0, <2>1, <2>2, <2>3, <2>4 DEF IInv
<1>2. CASE CallClose
  <2>1. AddrMatchesSender' /\ NoSenderLeak' /\ CallShape' /\ BatchShape'
    BY <1>2, <1>a DEF CallClose, MutexFree, Connected, flushVars, AddrMatchesSender,
                      NoSenderLeak, CallShape, BatchShape
  <2>2. BuffersOffered' /\ BatchOffered' /\ DeliveredOffered'
    BY <1>2, <1>a DEF CallClose, flushVars, BuffersOffered, BatchOffered, DeliveredOffered
  <2>3. CurrentOffered'
    BY <1>2, <1>a, CurrentSame DEF CallClose, CurrentOffered
  <2>4. TakenOffered' /\ LateAlone'
    BY <1>2, <1>a DEF CallClose, flushVars, TakenOffered, LateAlone
  <2> QED BY <1>0, <2>1, <2>2, <2>3, <2>4 DEF IInv
<1>3. CASE Drain
  <2>1. sender \in SenderIds /\ sender' = sender /\ ReportBuffer(sender, "drained")
    BY <1>3, <1>a DEF Drain, CallShape, TypeOK
  <2>2. /\ NoSenderLeak' /\ BuffersOffered' /\ CurrentOffered' /\ DeliveredOffered'
        /\ TakenOffered' /\ LateAlone'
        /\ senders'[sender].state = "drained"
        /\ senders'[sender].addr = senders[sender].addr
        /\ \A r \in SenderIds : r # sender => senders'[r] = senders[r]
    BY <1>3, <2>1, ReportStep DEF Drain
  <2>3. AddrMatchesSender' /\ CallShape' /\ BatchOffered'
    BY <1>3, <1>a, <2>1, <2>2 DEF Drain, flushVars, AddrMatchesSender, CallShape, BatchOffered
  <2>4. BatchShape'
    BY <1>3, <1>a, <2>1, <2>2 DEF Drain, flushVars, BatchShape, TypeOK
  <2> QED BY <1>0, <2>2, <2>3, <2>4 DEF IInv
<1>4. CASE CloseSender
  <2>1. /\ sender \in SenderIds /\ sender' = NoSender /\ addr' = NoAddr
        /\ senders'[sender].state = "stopped" /\ senders'[sender].buffer = {}
        /\ \A r \in SenderIds : r # sender => senders'[r] = senders[r]
    BY <1>4, <1>a DEF CloseSender, ForgetSender, CallShape, TypeOK
  <2>2. AddrMatchesSender' /\ NoSenderLeak' /\ CallShape'
    BY <1>4, <1>a, <2>1 DEF CloseSender, AddrMatchesSender, NoSenderLeak, CallShape
  <2>3. BatchShape'
    BY <1>4, <1>a, <2>1 DEF CloseSender, flushVars, BatchShape, TypeOK
  <2>4. BuffersOffered' /\ DeliveredOffered'
    BY <1>4, <1>a, <1>b, <2>1 DEF CloseSender, BuffersOffered, DeliveredOffered
  <2>5. BatchOffered' /\ CurrentOffered'
    BY <1>4, <1>a, <2>1 DEF CloseSender, flushVars, BatchOffered, BatchShape, CurrentOffered, Current
  <2>6. TakenOffered'
    BY <1>4, <1>a, <2>1 DEF CloseSender, flushVars, TakenOffered, BatchShape
  <2>7. LateAlone'
    BY <1>4, <1>a, <2>1 DEF CloseSender, flushVars, LateAlone, BuffersOffered
  <2> QED BY <1>0, <2>2, <2>3, <2>4, <2>5, <2>6, <2>7 DEF IInv
<1>5. CASE DialFails
  <2>1. AddrMatchesSender' /\ NoSenderLeak' /\ CallShape' /\ BatchShape'
    BY <1>5, <1>a DEF DialFails, flushVars, AddrMatchesSender, NoSenderLeak, CallShape, BatchShape
  <2>2. BuffersOffered' /\ BatchOffered' /\ DeliveredOffered'
    BY <1>5, <1>a DEF DialFails, flushVars, BuffersOffered, BatchOffered, DeliveredOffered
  <2>3. CurrentOffered'
    BY <1>5, <1>a, CurrentSame DEF DialFails, CurrentOffered
  <2>4. TakenOffered' /\ LateAlone'
    BY <1>5, <1>a DEF DialFails, flushVars, TakenOffered, LateAlone
  <2> QED BY <1>0, <2>1, <2>2, <2>3, <2>4 DEF IInv
<1>6. CASE Dial
  <2>1. PICK s \in SenderIds :
            /\ senders[s].state = "unborn"
            /\ senders' = [senders EXCEPT ![s].state = "open", ![s].addr = target]
            /\ sender' = s
    BY <1>6 DEF Dial
  <2>2. /\ senders'[s].state = "open" /\ senders'[s].addr = target
        /\ senders'[s].buffer = senders[s].buffer
        /\ \A r \in SenderIds : r # s => senders'[r] = senders[r]
    BY <1>a, <2>1 DEF TypeOK
  <2>3. sender = NoSender /\ target # NoAddr /\ addr' = target /\ rpc' = "idle"
    BY <1>6, <1>a DEF Dial, CallShape
  <2>4. AddrMatchesSender' /\ NoSenderLeak' /\ CallShape'
    BY <1>a, <1>b, <2>1, <2>2, <2>3 DEF AddrMatchesSender, NoSenderLeak, CallShape, TypeOK
  <2>5. BatchShape' /\ BatchOffered'
    BY <1>6, <1>a, <1>b, <2>1, <2>2 DEF Dial, flushVars, BatchShape, BatchOffered, TypeOK
  <2>6. BuffersOffered'
    BY <1>a, <1>b, <2>1, <2>2, <2>3 DEF BuffersOffered
  <2>7. CurrentOffered' /\ DeliveredOffered'
    BY <1>6 DEF Dial, CurrentOffered, DeliveredOffered
  <2>8. fpc = "reporting" => batchSender # sender /\ batchSender # sender'
    BY <1>a, <2>1, <2>3 DEF BatchShape
  <2>9. TakenOffered'
    BY <1>6, <1>a, <2>8 DEF Dial, flushVars, TakenOffered
  <2>10. LateAlone'
    BY <1>6, <1>a, <2>2, <2>8 DEF Dial, flushVars, LateAlone
  <2> QED BY <1>0, <2>4, <2>5, <2>6, <2>7, <2>9, <2>10 DEF IInv
<1>7. ASSUME NEW report \in Reports, CallSend(report) PROVE IInv'
  <2>1. AddrMatchesSender' /\ NoSenderLeak' /\ CallShape' /\ BatchShape'
    BY <1>7, <1>a DEF CallSend, Send, flushVars, AddrMatchesSender, NoSenderLeak,
                      CallShape, BatchShape
  <2>2. BuffersOffered' /\ BatchOffered' /\ CurrentOffered' /\ DeliveredOffered'
    BY <1>7, <1>a DEF CallSend, Send, flushVars, BuffersOffered, BatchOffered,
                      CurrentOffered, DeliveredOffered
  <2>3. TakenOffered' /\ LateAlone'
    BY <1>7, <1>a DEF CallSend, Send, flushVars, TakenOffered, LateAlone
  <2> QED BY <1>0, <2>1, <2>2, <2>3 DEF IInv
<1>8. CASE ExtractBatch
  <2>1. AddrMatchesSender' /\ NoSenderLeak' /\ CallShape' /\ BuffersOffered' /\ DeliveredOffered'
    BY <1>8, <1>a DEF ExtractBatch, AddrMatchesSender, NoSenderLeak, CallShape, BuffersOffered,
                      DeliveredOffered
  <2>2. BatchShape'
    BY <1>8, <1>a DEF ExtractBatch, Connected, MutexFree, BatchShape, AddrMatchesSender
  <2>3. CurrentOffered'
    BY <1>8, <1>a, CurrentSame DEF ExtractBatch, CurrentOffered
  <2>4. BatchOffered'
    BY <1>8, <1>a DEF ExtractBatch, Connected, BatchOffered, CurrentOffered, Current,
                      AddrMatchesSender
  <2>5. TakenOffered' /\ LateAlone'
    BY <1>8, <1>a DEF ExtractBatch, TakenOffered, LateAlone
  <2> QED BY <1>0, <2>1, <2>2, <2>3, <2>4, <2>5 DEF IInv
<1>9. ASSUME NEW n \in Names, SendMetric(n) PROVE IInv'
  <2> DEFINE p == [name |-> n, value |-> batch[n]]
  <2>1. batchSender \in SenderIds /\ senders[batchSender].state # "unborn"
    BY <1>9, <1>a DEF SendMetric, BatchShape, TypeOK
  <2>2. \/ senders' = senders /\ senders[batchSender].state = "stopped"
        \/ /\ senders[batchSender].state # "stopped"
           /\ senders' = [senders EXCEPT ![batchSender].buffer = @ \cup {p}]
    BY <1>9 DEF SendMetric, HandleLine
  <2>3. batchSender # sender => senders' = senders
    BY <2>1, <2>2, <1>a DEF NoSenderLeak
  <2>4. /\ \A s \in SenderIds : senders'[s].state = senders[s].state
                              /\ senders'[s].addr = senders[s].addr
        /\ \A s \in SenderIds : s # batchSender => senders'[s] = senders[s]
        /\ senders'[batchSender].buffer \subseteq senders[batchSender].buffer \cup {p}
    BY <2>1, <2>2, <1>a DEF TypeOK
  <2>5. AddrMatchesSender' /\ NoSenderLeak' /\ CallShape'
    BY <1>9, <1>a, <2>4 DEF SendMetric, AddrMatchesSender, NoSenderLeak, CallShape, TypeOK
  <2>6. BatchShape'
    BY <1>9, <1>a, <2>1, <2>4 DEF SendMetric, BatchShape
  <2>7. batchSender = sender => p \in offered
    BY <1>9, <1>a DEF SendMetric, BatchOffered
  <2>8. BuffersOffered'
    BY <1>9, <1>a, <2>1, <2>3, <2>4, <2>7 DEF SendMetric, BuffersOffered
  <2>9. BatchOffered'
    BY <1>9, <1>a DEF SendMetric, BatchOffered, TypeOK
  <2>10. CurrentOffered' /\ DeliveredOffered'
    BY <1>9, <1>a, CurrentSame DEF SendMetric, CurrentOffered, DeliveredOffered
  <2>11. TakenOffered' /\ LateAlone'
    BY <1>9, <1>a DEF SendMetric, TakenOffered, LateAlone
  <2> QED BY <1>0, <2>5, <2>6, <2>8, <2>9, <2>10, <2>11 DEF IInv
<1>10. CASE FlushSender
  <2>1. AddrMatchesSender' /\ NoSenderLeak' /\ CallShape' /\ BuffersOffered' /\ DeliveredOffered'
    BY <1>10, <1>a DEF FlushSender, AddrMatchesSender, NoSenderLeak, CallShape, BuffersOffered,
                       DeliveredOffered
  <2>2. BatchShape' /\ BatchOffered'
    BY <1>10, <1>a DEF FlushSender, BatchShape, BatchOffered
  <2>3. CurrentOffered'
    BY <1>10, <1>a, CurrentSame DEF FlushSender, CurrentOffered
  <2>4. TakenOffered' /\ LateAlone'
    BY <1>10, <1>a DEF FlushSender, TakenOffered, LateAlone
  <2> QED BY <1>0, <2>1, <2>2, <2>3, <2>4 DEF IInv
<1>11. CASE Take
  <2>1. /\ batchSender \in SenderIds /\ batchSender = sender
        /\ UNCHANGED <<addr, latest, offered, delivered, sender>>
    BY <1>11, <1>a DEF Take, BatchShape, NoSenderLeak, TypeOK
  <2>2. /\ senders'[sender].state = senders[sender].state
        /\ senders'[sender].addr = senders[sender].addr
        /\ senders'[sender].buffer = {}
        /\ \A r \in SenderIds : r # sender => senders'[r] = senders[r]
    BY <1>11, <1>a, <2>1 DEF Take, TypeOK
  <2>3. AddrMatchesSender' /\ NoSenderLeak' /\ CallShape'
    BY <1>11, <1>a, <2>1, <2>2 DEF Take, AddrMatchesSender, NoSenderLeak, CallShape
  <2>4. BatchShape' /\ BatchOffered'
    BY <1>11, <1>a, <2>1, <2>2 DEF Take, BatchShape, BatchOffered
  <2>5. BuffersOffered' /\ DeliveredOffered'
    BY <1>a, <2>1, <2>2 DEF BuffersOffered, DeliveredOffered
  <2>6. CurrentOffered'
    BY <1>a, <2>1, CurrentSame DEF CurrentOffered
  <2>7. TakenOffered' /\ LateAlone'
    BY <1>11, <1>a, <2>1 DEF Take, TakenOffered, LateAlone, BuffersOffered
  <2> QED BY <1>0, <2>3, <2>4, <2>5, <2>6, <2>7 DEF IInv
<1>12. CASE FlushReports
  <2>1. /\ batchSender \in SenderIds /\ senders[batchSender].state # "unborn"
        /\ UNCHANGED <<addr, latest, offered, sender>>
        /\ fpc' = "idle" /\ taken' = {}
    BY <1>12, <1>a DEF FlushReports, BatchShape, TypeOK
  <2>2. delivered' \subseteq offered
    BY <1>12, <1>a DEF FlushReports, Accepted, Refused, Late, TakenOffered, DeliveredOffered
  <2>3. batchSender # sender => senders' = senders
    BY <1>12, <1>a, <2>1 DEF FlushReports, Accepted, Refused, NoSenderLeak
  <2>4. /\ \A s \in SenderIds : senders'[s].state = senders[s].state
                              /\ senders'[s].addr = senders[s].addr
        /\ \A s \in SenderIds : s # batchSender => senders'[s] = senders[s]
        /\ senders'[batchSender].buffer \subseteq senders[batchSender].buffer \cup taken
    BY <1>12, <1>a, <2>1 DEF FlushReports, Accepted, Refused, TypeOK
  <2>5. AddrMatchesSender' /\ NoSenderLeak' /\ CallShape'
    BY <1>12, <1>a, <2>1, <2>4 DEF FlushReports, AddrMatchesSender, NoSenderLeak, CallShape, TypeOK
  <2>6. BuffersOffered'
    BY <1>12, <1>a, <2>1, <2>3, <2>4 DEF FlushReports, BuffersOffered, TakenOffered
  <2>7. BatchShape' /\ BatchOffered' /\ TakenOffered' /\ LateAlone' /\ DeliveredOffered'
    BY <2>1, <2>2 DEF BatchShape, BatchOffered, TakenOffered, LateAlone, DeliveredOffered
  <2>8. CurrentOffered'
    BY <1>a, <2>1, CurrentSame DEF CurrentOffered
  <2> QED BY <1>0, <2>5, <2>6, <2>7, <2>8 DEF IInv
<1>13. ASSUME NEW s \in SenderIds, SenderTick(s) PROVE IInv'
  <2>1. s = sender
    BY <1>13, <1>a DEF SenderTick, NoSenderLeak
  <2>2. /\ NoSenderLeak' /\ BuffersOffered' /\ CurrentOffered' /\ DeliveredOffered'
        /\ TakenOffered' /\ LateAlone'
        /\ senders'[sender].state = "open"
        /\ senders'[sender].addr = senders[sender].addr
        /\ \A r \in SenderIds : r # sender => senders'[r] = senders[r]
    BY <1>13, <2>1, ReportStep DEF SenderTick
  <2>3. AddrMatchesSender' /\ CallShape' /\ BatchOffered'
    BY <1>13, <1>a, <2>1, <2>2 DEF SenderTick, flushVars, AddrMatchesSender, CallShape, BatchOffered
  <2>4. BatchShape'
    BY <1>13, <1>a, <2>1, <2>2 DEF SenderTick, flushVars, BatchShape, TypeOK
  <2> QED BY <1>0, <2>2, <2>3, <2>4 DEF IInv
<1>14. CASE UNCHANGED connVars
  <2>1. AddrMatchesSender' /\ NoSenderLeak' /\ CallShape' /\ BatchShape' /\ BuffersOffered'
        /\ BatchOffered' /\ DeliveredOffered'
    BY <1>14, <1>a DEF connVars, AddrMatchesSender, NoSenderLeak, CallShape, BatchShape,
                       BuffersOffered, BatchOffered, DeliveredOffered
  <2>2. CurrentOffered'
    BY <1>14, <1>a, CurrentSame DEF connVars, CurrentOffered
  <2>3. TakenOffered' /\ LateAlone'
    BY <1>14, <1>a DEF connVars, TakenOffered, LateAlone
  <2> QED BY <1>0, <2>1, <2>2, <2>3 DEF IInv
<1> QED
  BY <1>1, <1>2, <1>3, <1>4, <1>5, <1>6, <1>7, <1>8, <1>9, <1>10, <1>11, <1>12, <1>13, <1>14
  DEF Next, Reconciler, FlushLoop

(* The inductive invariant holds in every reachable state.                 *)
THEOREM InvariantHolds == Spec => []IInv
<1>1. Init => IInv
  BY InvInit
<1>2. IInv /\ [Next]_connVars => IInv'
  BY InvStep
<1> QED BY <1>1, <1>2, PTL DEF Spec

(* The type invariant, for every value of the constants.                   *)
THEOREM TypeCorrect == Spec => []TypeOK
<1>1. IInv => TypeOK
  BY DEF IInv
<1> QED BY <1>1, InvariantHolds, PTL

(* connection.go keeps addr and sender together: there is an address just  *)
(* when there is an open sender made for it, whatever Connect and Close    *)
(* did before and however the flush loop ran between their steps.          *)
THEOREM AddressMatches == Spec => []AddrMatchesSender
<1>1. IInv => AddrMatchesSender
  BY DEF IInv
<1> QED BY <1>1, InvariantHolds, PTL

(* Every sender Connect ever made is stopped before it is forgotten.       *)
THEOREM NoLeak == Spec => []NoSenderLeak
<1>1. IInv => NoSenderLeak
  BY DEF IInv
<1> QED BY <1>1, InvariantHolds, PTL

(* What a session delivers was current in that session, and a report that  *)
(* outlasts its session keeps the next one from delivering anything.       *)
THEOREM SessionOnly == Spec => []DeliversThisSession
<1>1. IInv => DeliversThisSession
  BY DEF IInv, DeliveredOffered, LateAlone, DeliversThisSession, Late
<1> QED BY <1>1, InvariantHolds, PTL

-----------------------------------------------------------------------------
(* A report of the current sender is a delivery, or nothing to the sink.   *)
LEMMA ReportDelivers ==
    ASSUME IInv, NEW next \in {"open", "drained"}, sender \in SenderIds,
           ReportBuffer(sender, next), LineMutexFree(sender),
           UNCHANGED <<addr, latest, offered, sender, flushVars>>
    PROVE  Sink!Deliver \/ UNCHANGED Sink!sinkVars
<1>1. senders[sender].buffer \subseteq offered /\ Late' = Late
  BY DEF IInv, BuffersOffered, Late, flushVars
<1>2. CASE Late = {} /\ delivered' = delivered \cup senders[sender].buffer
  BY <1>1, <1>2 DEF Sink!Deliver
<1>3. CASE Late # {} \/ delivered' = delivered
  <2>1. delivered' = delivered
    BY <1>3, ReportBufferType DEF ReportBuffer, IInv, LateAlone, Late
  <2> QED BY <1>1, <2>1 DEF Sink!sinkVars
<1> QED BY <1>2, <1>3 DEF ReportBuffer

(* Every step of the connection is a step of the sink or invisible to it.  *)
LEMMA StepRefines == IInv /\ [Next]_connVars => [Sink!SinkNext]_(Sink!sinkVars)
<1> SUFFICES ASSUME IInv, [Next]_connVars PROVE [Sink!SinkNext]_(Sink!sinkVars)
  OBVIOUS
<1>a. TypeOK /\ AddrMatchesSender /\ NoSenderLeak /\ CallShape /\ BatchShape
      /\ TakenOffered /\ DeliveredOffered
  BY DEF IInv
<1>1. ASSUME NEW raw \in RawAddrs, CallConnect(raw) PROVE UNCHANGED Sink!sinkVars
  BY <1>1 DEF CallConnect, flushVars, Late, Sink!sinkVars
<1>2. CASE CallClose
  BY <1>2 DEF CallClose, flushVars, Late, Sink!sinkVars
<1>3. CASE Drain
  <2>1. sender \in SenderIds
    BY <1>3, <1>a DEF Drain, CallShape, TypeOK
  <2> QED BY <1>3, <2>1, ReportDelivers DEF Drain, Sink!SinkNext
<1>4. CASE CloseSender
  <2>1. sender \in SenderIds /\ sender' = NoSender /\ NoSender \notin SenderIds
    BY <1>4, <1>a, ConnectionAssumption DEF CloseSender, ForgetSender, CallShape, TypeOK, SenderIds
  <2>2. Late' = IF fpc = "reporting" THEN taken ELSE {}
    BY <1>4, <1>a, <2>1 DEF CloseSender, flushVars, Late, BatchShape
  <2>3. IF Late = {} THEN Late' \in SUBSET offered ELSE Late' = Late
    BY <1>a, <2>2 DEF Late, TakenOffered
  <2>4. addr' = NoAddr /\ latest' = latest /\ offered' = {} /\ delivered' = {}
    BY <1>4 DEF CloseSender, ForgetSender
  <2> QED BY <2>3, <2>4 DEF Sink!SinkNext, Sink!EndSession, Sink!Close
<1>5. CASE DialFails
  BY <1>5 DEF DialFails, flushVars, Late, Sink!sinkVars
<1>6. CASE Dial
  <2>1. target \in Addrs /\ addr # target
    BY <1>6, <1>a DEF Dial, CallShape, AddrMatchesSender, TypeOK
  <2>2. fpc = "reporting" => batchSender # sender /\ batchSender # sender'
    BY <1>6, <1>a DEF Dial, CallShape, BatchShape
  <2>3. Late' = Late
    BY <1>6, <2>2 DEF Dial, flushVars, Late
  <2>4. Sink!StartSession(target)
    BY <1>6, <2>1, <2>3 DEF Dial, Sink!StartSession, Sink!Connect, Sink!Current, Current
  <2> QED BY <2>1, <2>4 DEF Sink!SinkNext
<1>7. ASSUME NEW report \in Reports, CallSend(report) PROVE Sink!SinkNext
  <2>1. Sink!Report(report)
    BY <1>7 DEF CallSend, Send, flushVars, Late, Sink!Report, Sink!Send, Sink!Current, Current
  <2> QED BY <2>1 DEF Sink!SinkNext, Sink!Reports, Reports
<1>8. CASE ExtractBatch
  BY <1>8 DEF ExtractBatch, Late, Sink!sinkVars
<1>9. ASSUME NEW n \in Names, SendMetric(n) PROVE UNCHANGED Sink!sinkVars
  BY <1>9 DEF SendMetric, Late, Sink!sinkVars
<1>10. CASE FlushSender
  BY <1>10 DEF FlushSender, Late, Sink!sinkVars
<1>11. CASE Take
  <2>1. batchSender = sender
    BY <1>11, <1>a DEF Take, BatchShape, NoSenderLeak, TypeOK
  <2> QED BY <1>11, <2>1 DEF Take, Late, Sink!sinkVars
<1>12. CASE FlushReports
  <2>1. UNCHANGED <<addr, latest, offered>> /\ Late' = {}
    BY <1>12 DEF FlushReports, Late
  <2>2. CASE Late # {}
    <3>1. delivered' = delivered
      BY <1>12, <1>a, <2>2 DEF FlushReports, Accepted, Refused, Late
    <3> QED BY <2>1, <2>2, <3>1 DEF Sink!SinkNext, Sink!LateReport
  <2>3. CASE Late = {} /\ delivered' = delivered
    BY <2>1, <2>3 DEF Sink!sinkVars
  <2>4. CASE Late = {} /\ delivered' = delivered \cup taken
    <3>1. taken \subseteq offered
      BY <1>12, <1>a, <2>4 DEF FlushReports, Late, TakenOffered
    <3> QED BY <2>1, <2>4, <3>1 DEF Sink!SinkNext, Sink!Deliver
  <2> QED BY <1>12, <2>2, <2>3, <2>4 DEF FlushReports, Accepted, Refused
<1>13. ASSUME NEW s \in SenderIds, SenderTick(s) PROVE [Sink!SinkNext]_(Sink!sinkVars)
  <2>1. s = sender
    BY <1>13, <1>a DEF SenderTick, NoSenderLeak
  <2> QED BY <1>13, <2>1, ReportDelivers DEF SenderTick, Sink!SinkNext
<1>14. CASE UNCHANGED connVars
  BY <1>14 DEF connVars, Late, Sink!sinkVars
<1> QED
  BY <1>1, <1>2, <1>3, <1>4, <1>5, <1>6, <1>7, <1>8, <1>9, <1>10, <1>11, <1>12, <1>13, <1>14
  DEF Next, Reconciler, FlushLoop

(* connection.go implements MetricSink: a session delivers only values     *)
(* that were current in it, although the flush loop sends without the      *)
(* mutex, and at most one report of it, begun before its end, arrives      *)
(* after Close has returned.                                               *)
THEOREM ConnectionImplementsSink == Spec => ImplementsSink
<1>1. Init => Sink!SinkInit
  BY DEF Init, GaugesInit, Late, Sink!SinkInit, Sink!GaugesInit
<1>2. IInv /\ [Next]_connVars => [Sink!SinkNext]_(Sink!sinkVars)
  BY StepRefines
<1> QED BY <1>1, <1>2, InvariantHolds, PTL DEF Spec, ImplementsSink, Sink!SinkSpec

-----------------------------------------------------------------------------
(* What Reconcile may assume of the connection: leaving the sender and the *)
(* flush loop out of sight, what the sink does is what the gauges do.      *)
LEMMA SinkShowsGauges == [Sink!SinkNext]_(Sink!sinkVars) => [GaugesNext]_<<addr, latest>>
<1> SUFFICES ASSUME [Sink!SinkNext]_(Sink!sinkVars) PROVE [GaugesNext]_<<addr, latest>>
  OBVIOUS
<1>1. ASSUME NEW a \in Addrs, Sink!StartSession(a) PROVE GaugesNext
  BY <1>1 DEF Sink!StartSession, Sink!Connect, Connect, GaugesNext
<1>2. CASE Sink!EndSession
  BY <1>2 DEF Sink!EndSession, Sink!Close, Close, GaugesNext
<1>3. ASSUME NEW report \in Sink!Reports, Sink!Report(report) PROVE GaugesNext
  BY <1>3 DEF Sink!Report, Sink!Send, Sink!Reports, Send, Reports, GaugesNext
<1>4. CASE Sink!Deliver \/ Sink!LateReport \/ UNCHANGED Sink!sinkVars
  BY <1>4 DEF Sink!Deliver, Sink!LateReport, Sink!sinkVars
<1> QED
  BY <1>1, <1>2, <1>3, <1>4 DEF Sink!SinkNext

(* connection.go implements the three calls of MetricGauges, each as one   *)
(* step although it takes several: Reconciler, which makes these calls,    *)
(* need not know of the sender or of the flush loop.                       *)
THEOREM ConnectionShowsGauges == Spec => GaugesSpec
<1>1. Sink!SinkInit => GaugesInit
  BY DEF Sink!SinkInit, Sink!GaugesInit, GaugesInit
<1> QED
  BY <1>1, SinkShowsGauges, ConnectionImplementsSink, PTL
  DEF ImplementsSink, Sink!SinkSpec, GaugesSpec

-----------------------------------------------------------------------------
(* A flush loop that hangs: by then every sender that is left is empty.    *)
HungInv == Hung => delivered = {} /\ \A s \in SenderIds : senders[s].buffer = {}

(* Only empty buffers are reported while the flush loop hangs.             *)
LEMMA ReportNothing ==
    ASSUME TypeOK, NEW s \in SenderIds, NEW next \in {"open", "drained"},
           ReportBuffer(s, next), delivered = {},
           \A r \in SenderIds : senders[r].buffer = {}
    PROVE  delivered' = {} /\ \A r \in SenderIds : senders'[r].buffer = {}
<1>1. /\ delivered' \subseteq delivered \cup senders[s].buffer
      /\ senders'[s].buffer \subseteq senders[s].buffer
      /\ \A r \in SenderIds : r # s => senders'[r] = senders[r]
  BY ReportBufferType
<1> QED
  BY <1>1

(* A hang begins when a sender is closed under the flush loop, and from    *)
(* then on nothing is left that fills a buffer.                            *)
LEMMA HangStep ==
    IInv /\ HungInv /\ [Next]_connVars => HungInv' /\ (Hung => Hung' /\ delivered' = {})
<1> SUFFICES ASSUME IInv, HungInv, [Next]_connVars
             PROVE  HungInv' /\ (Hung => Hung' /\ delivered' = {})
  OBVIOUS
<1>a. TypeOK /\ AddrMatchesSender /\ NoSenderLeak /\ CallShape /\ BatchShape /\ BuffersOffered
  BY DEF IInv
<1>b. NoSender \notin SenderIds
  BY ConnectionAssumption DEF SenderIds
<1>1. CASE UNCHANGED <<delivered, senders, fpc, batchSender>>
  BY <1>1 DEF HungInv, Hung
<1>2. CASE Drain
  <2>1. sender \in SenderIds /\ ReportBuffer(sender, "drained") /\ UNCHANGED <<fpc, batchSender>>
    BY <1>2, <1>a DEF Drain, CallShape, TypeOK, flushVars
  <2>2. senders'[sender].state # "stopped" /\ senders[sender].state # "stopped"
        /\ \A r \in SenderIds : r # sender => senders'[r] = senders[r]
    BY <1>2, <1>a, <2>1, ReportBufferType DEF Drain
  <2>3. Hung' <=> Hung
    BY <1>a, <2>1, <2>2 DEF Hung, BatchShape, TypeOK
  <2> QED
    BY <1>a, <2>1, <2>3, ReportNothing DEF HungInv
<1>3. CASE CloseSender
  <2>1. /\ sender \in SenderIds /\ delivered' = {} /\ UNCHANGED <<fpc, batchSender>>
        /\ senders'[sender].state = "stopped" /\ senders'[sender].buffer = {}
        /\ \A r \in SenderIds : r # sender => senders'[r] = senders[r]
    BY <1>3, <1>a DEF CloseSender, CallShape, TypeOK, flushVars
  <2>2. \A s \in SenderIds : senders'[s].buffer = {}
    BY <1>a, <2>1 DEF BuffersOffered
  <2>3. Hung => Hung'
    BY <1>a, <2>1 DEF Hung, BatchShape, TypeOK
  <2> QED
    BY <2>1, <2>2, <2>3 DEF HungInv
<1>4. CASE Dial
  <2>1. PICK s \in SenderIds :
            /\ senders[s].state = "unborn"
            /\ senders' = [senders EXCEPT ![s].state = "open", ![s].addr = target]
    BY <1>4 DEF Dial
  <2>2. /\ senders'[s].state = "open" /\ senders'[s].buffer = senders[s].buffer
        /\ \A r \in SenderIds : r # s => senders'[r] = senders[r]
    BY <1>a, <2>1 DEF TypeOK
  <2>3. delivered' = {} /\ UNCHANGED <<fpc, batchSender>>
    BY <1>4 DEF Dial, flushVars
  <2>4. Hung' <=> Hung
    BY <1>a, <2>1, <2>2, <2>3 DEF Hung, BatchShape, TypeOK
  <2> QED
    BY <2>2, <2>3, <2>4 DEF HungInv
<1>5. ASSUME NEW n \in Names, SendMetric(n) PROVE ~Hung /\ ~Hung'
  BY <1>5 DEF SendMetric, Hung
<1>6. CASE ExtractBatch
  BY <1>6 DEF ExtractBatch, Hung, HungInv
<1>7. CASE FlushSender
  <2>1. ~Hung
    BY <1>7 DEF FlushSender, Hung
  <2>2. fpc' = "taking" => batchSender' = sender /\ senders'[sender].state # "stopped"
    <3> SUFFICES ASSUME fpc' = "taking"
                 PROVE  batchSender' = sender /\ senders'[sender].state # "stopped"
      OBVIOUS
    <3>1. senders[batchSender].buffer # {} /\ batchSender' = batchSender /\ senders' = senders
      BY <1>7 DEF FlushSender
    <3>2. batchSender \in SenderIds
      BY <1>7, <1>a DEF FlushSender, BatchShape, TypeOK
    <3>3. batchSender = sender
      BY <1>a, <3>1, <3>2 DEF BuffersOffered
    <3> QED
      BY <1>a, <1>b, <3>1, <3>2, <3>3 DEF AddrMatchesSender
  <2>3. ~Hung'
    BY <2>2 DEF Hung
  <2> QED
    BY <2>1, <2>3 DEF HungInv
<1>8. CASE Take \/ FlushReports
  BY <1>8 DEF Take, FlushReports, Hung, HungInv
<1>9. ASSUME NEW s \in SenderIds, SenderTick(s) PROVE HungInv' /\ (Hung => Hung' /\ delivered' = {})
  <2>1. s = sender /\ senders[s].state = "open" /\ ReportBuffer(s, "open")
        /\ UNCHANGED <<fpc, batchSender>>
    BY <1>9, <1>a DEF SenderTick, NoSenderLeak, flushVars
  <2>2. senders'[s].state = "open" /\ \A r \in SenderIds : r # s => senders'[r] = senders[r]
    BY <1>a, <2>1, ReportBufferType
  <2>3. Hung' <=> Hung
    BY <1>a, <2>1, <2>2 DEF Hung, BatchShape, TypeOK
  <2> QED
    BY <1>a, <2>1, <2>3, ReportNothing DEF HungInv
<1>10. \/ \E raw \in RawAddrs : CallConnect(raw)
       \/ CallClose \/ DialFails \/ (\E report \in Reports : CallSend(report)) \/ UNCHANGED connVars
       => UNCHANGED <<delivered, senders, fpc, batchSender>>
  BY DEF CallConnect, CallClose, DialFails, CallSend, Send, flushVars, connVars
<1> QED
  BY <1>1, <1>2, <1>3, <1>4, <1>5, <1>6, <1>7, <1>8, <1>9, <1>10
  DEF Next, Reconciler, FlushLoop, HungInv

(* Once the flush loop receives from a buffer that was dropped, no gauge   *)
(* of any later session reaches a proxy, however the operator reconnects.  *)
THEOREM HangLasts == Spec => HangIsFinal
<1>1. Init => HungInv
  BY DEF Init, HungInv, Hung
<1>2. IInv /\ HungInv /\ [Next]_connVars => HungInv'
  BY HangStep
<1>3. IInv /\ HungInv /\ [Next]_connVars => [Hung => Hung' /\ delivered' = {}]_connVars
  BY HangStep
<1> QED
  BY <1>1, <1>2, <1>3, InvariantHolds, PTL DEF Spec, HangIsFinal
=============================================================================
