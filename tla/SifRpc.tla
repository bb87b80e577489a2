-------------------------------- MODULE SifRpc --------------------------------
(***************************************************************************)
(* The IOP side of SIF RPC (src/runtime/sif/rpc.cpp) and the SIF flags     *)
(* (src/runtime/sif/sif.cpp): requests arrive inside SifSetDma, their      *)
(* completions are put on the virtual clock's timeline, and all packets go *)
(* through the one receive buffer the EE has registered.                   *)
(*                                                                         *)
(* The guest's side (the game's own sifrpc and sifcmd library, translated) *)
(* is external: clients that call and wait, the SIF0 handler that empties  *)
(* the buffer, and the boot path with its IOP reboot.                      *)
(*                                                                         *)
(* The model keeps how far off a delivery is (due - rt_clock_now()) and no *)
(* absolute time.                                                          *)
(*                                                                         *)
(* The operators named Bug... are the plausible mistakes the properties    *)
(* are tested against; nothing in the specification uses them.             *)
(***************************************************************************)
EXTENDS Integers, SequencesExt

CONSTANTS
  NClients,      \* guest threads that make RPC requests, one client each
  Latency,       \* kSifLatency
  Retry,         \* kBusyRetry
  SyscallTicks,  \* what h_SifSetDma bills the clock after the transfer
  MaxHold,       \* bound: the longest hold a service asks for
  MaxTick        \* bound: the ticks one stretch of guest code bills

ASSUME TimesAssumption ==
  /\ Latency \in Nat \ {0} /\ Retry \in Nat \ {0} /\ MaxHold \in Nat /\ MaxTick \in Nat \ {0}
  /\ SyscallTicks \in Nat /\ SyscallTicks >= Latency
ASSUME ClientsAssumption == NClients \in Nat

Client == 1..NClients
Sreg   == 0     \* who a SET_SREG packet is for
Empty  == -1    \* psize of the EE's receive buffer reads 0

Flag == {"SIFINIT", "CMDINIT", "BOOTEND"}

VARIABLES
  queue,           \* g_queue
  buf, sif0,       \* the packet in the EE's receive buffer; SIF0 is raised
  registered,      \* g_ee_pktbuf is set
  clock,           \* cycles rt_clock_tick has still to go through
  smflag,          \* g_reg[SIF_REG_SMFLAG]
  reboot_pending,  \* g_reboot_pending
  client,          \* what a guest thread waits for: nothing, END, or the
                   \*   release of its call packet
  boot, sreg,      \* where the boot path is; sceSifGetSreg(0)
  left,            \* history: ticks the server still works on a request
  answered         \* history: the IOP has finished the last reboot

rpcVars   == <<queue, buf, sif0, clock, left>>
flagVars  == <<smflag, reboot_pending, answered>>
guestVars == <<client, boot, sreg, registered>>
vars      == <<rpcVars, flagVars, guestVars>>

Init ==
  /\ queue = <<>> /\ buf = Empty /\ sif0 = FALSE /\ registered = FALSE /\ clock = 0
  /\ smflag = Flag /\ reboot_pending = FALSE /\ answered = TRUE
  /\ client = [c \in Client |-> "idle"] /\ left = [c \in Client |-> 0]
  /\ boot = "cmdinit" /\ sreg = 0

-----------------------------------------------------------------------------
(* The timeline *)

\* The delivery that goes next: the earliest due, first among equals.
IsNext(i) ==
  \A j \in DOMAIN queue :
    queue[i].due < queue[j].due \/ (queue[i].due = queue[j].due /\ i <= j)

GuestRuns == clock = 0 /\ \A i \in DOMAIN queue : queue[i].due > 0

Later(q, n) == [i \in DOMAIN q |-> [q[i] EXCEPT !.due = @ - n]]

Works(n) == left' = [c \in Client |-> IF left[c] > n THEN left[c] - n ELSE 0]

\* rt_clock_tick goes on to the next event of its span, delivery i.
Arrive(i) ==
  /\ i \in DOMAIN queue /\ IsNext(i) /\ queue[i].due <= clock
  /\ clock' = clock - queue[i].due
  /\ Works(queue[i].due)

Done(i) == queue' = RemoveAt(Later(queue, queue[i].due), i)

BugRaiseAtOnce(i) ==
  /\ Arrive(i) /\ queue[i].kind = "boot" /\ Done(i)
  /\ smflag' = Flag /\ answered' = TRUE
  /\ UNCHANGED <<buf, sif0, reboot_pending, guestVars>>
BootEnd(i) ==
  /\ Arrive(i) /\ queue[i].kind = "boot" /\ Done(i)
  /\ reboot_pending' = TRUE
  /\ UNCHANGED <<buf, sif0, smflag, answered, guestVars>>

\* The call packet of a client that polls is released.
FreeEePkt(i) ==
  /\ Arrive(i) /\ queue[i].kind = "free" /\ Done(i)
  /\ client' = [client EXCEPT ![queue[i].who] = "idle"]
  /\ UNCHANGED <<buf, sif0, flagVars, boot, sreg, registered>>

\* A packet needs the receive buffer to be there and to be empty, or waits.
BugNeverBusy == FALSE
Busy == buf # Empty

CmdPacket(i) ==
  /\ Arrive(i) /\ queue[i].kind = "packet" /\ registered /\ ~ Busy /\ Done(i)
  /\ buf' = queue[i].who /\ sif0' = TRUE
  /\ UNCHANGED <<flagVars, guestVars>>

BugRetryNow(i) ==
  /\ Arrive(i) /\ queue[i].kind = "packet" /\ registered /\ Busy
  /\ queue' = [Later(queue, queue[i].due) EXCEPT ![i].due = 0, ![i].held = TRUE]
  /\ UNCHANGED <<buf, sif0, flagVars, guestVars>>
HoldPacket(i) ==
  /\ Arrive(i) /\ queue[i].kind = "packet" /\ registered /\ Busy
  /\ queue' = [Later(queue, queue[i].due) EXCEPT ![i].due = Retry, ![i].held = TRUE]
  /\ UNCHANGED <<buf, sif0, flagVars, guestVars>>

\* No event is left in the span.
TickOver ==
  /\ clock > 0 /\ \A i \in DOMAIN queue : queue[i].due > clock
  /\ queue' = Later(queue, clock) /\ clock' = 0 /\ Works(clock)
  /\ UNCHANGED <<buf, sif0, flagVars, guestVars>>

\* Guest code runs on and bills the clock.
Elapse(n) ==
  GuestRuns /\ clock' = n /\ UNCHANGED <<queue, buf, sif0, left, flagVars, guestVars>>

Timeline ==
  \/ \E i \in DOMAIN queue : BootEnd(i) \/ FreeEePkt(i) \/ CmdPacket(i) \/ HoldPacket(i)
  \/ TickOver

-----------------------------------------------------------------------------
(* Requests: the packets of a SifSetDma, whose syscall then lets the clock  *)
(* pass the latency                                                        *)

BugNoLatency == GuestRuns /\ clock' = 0 /\ UNCHANGED <<buf, sif0>>
SetDma == GuestRuns /\ clock' = SyscallTicks /\ UNCHANGED <<buf, sif0>>

BugNoHold(kind, who, hold) ==
  queue' = Append(queue, [kind |-> kind, who |-> who, due |-> Latency, held |-> FALSE])
Answer(kind, who, hold) ==
  queue' = Append(queue, [kind |-> kind, who |-> who, due |-> Latency + hold, held |-> FALSE])

Request(c, how, hold) ==
  /\ SetDma /\ boot = "up" /\ client[c] = "idle"
  /\ client' = [client EXCEPT ![c] = how]
  /\ left' = [left EXCEPT ![c] = Latency + hold]
  /\ UNCHANGED <<flagVars, boot, sreg, registered>>

Bind(c)  == Request(c, "end", 0) /\ Answer("packet", c, 0)
RData(c) == Request(c, "end", 0) /\ Answer("packet", c, 0)

\* A call with an end function or a waiting caller (rmode # 0), or NOWAIT;
\* its service may hold the completion.
Call(c, hold)       == Request(c, "end", hold) /\ Answer("packet", c, hold)
CallNoWait(c, hold) == Request(c, "free", hold) /\ Answer("free", c, hold)

\* The EE's SIF0 handler copies the packet out, zeroes psize and dispatches:
\* END signals the client's semaphore, SET_SREG sets the register.
SIF0Handler ==
  /\ GuestRuns /\ sif0 /\ sif0' = FALSE
  /\ buf' = Empty
  /\ client' = IF buf \in Client THEN [client EXCEPT ![buf] = "idle"] ELSE client
  /\ sreg' = IF buf = Sreg THEN 1 ELSE sreg
  /\ UNCHANGED <<queue, clock, left, flagVars, boot, registered>>

-----------------------------------------------------------------------------
(* The SIF flags, and the boot path of the guest *)

\* complete_pending_reboot, at every read of SMFLAG.
ReadSMFlag ==
  /\ smflag' = IF reboot_pending THEN Flag ELSE smflag
  /\ answered' = (answered \/ reboot_pending)
  /\ reboot_pending' = FALSE

\* An EE write to SMFLAG clears the bits written.
WriteSMFlag(f) == smflag' = smflag \ {f} /\ UNCHANGED <<reboot_pending, answered>>

BootStep(from, to) == GuestRuns /\ boot = from /\ boot' = to
NoTransfer         == UNCHANGED rpcVars

Spin(from, flag, to) ==
  /\ GuestRuns /\ boot = from /\ ReadSMFlag
  /\ boot' = IF flag \in smflag' THEN to ELSE from
  /\ NoTransfer /\ UNCHANGED <<client, sreg, registered>>

\* sceSifInitRpc: sceSifInitCmd waits for CMDINIT and registers the receive
\* buffer (opt 0), then opt 1 asks for SET_SREG and the register is awaited.
SpinCmdInit == Spin("cmdinit", "CMDINIT", "init0")
InitCmd0 ==
  /\ BootStep("init0", "init1") /\ SetDma /\ registered' = TRUE
  /\ UNCHANGED <<queue, left, flagVars, client, sreg>>
InitCmd1 ==
  /\ BootStep("init1", "sreg") /\ SetDma /\ Answer("packet", Sreg, 0)
  /\ UNCHANGED <<left, flagVars, client, sreg, registered>>
SpinSreg ==
  /\ BootStep("sreg", "up") /\ sreg = 1
  /\ NoTransfer /\ UNCHANGED <<flagVars, client, sreg, registered>>

\* sceSifRebootIop: the RPC layer goes down, RESET_CMD is sent, the flags of
\* the old IOP are cleared, sceSifSyncIop waits for BOOTEND and clears it.
ResetCmd ==
  /\ BootStep("up", "clearSif") /\ SetDma /\ Answer("boot", Sreg, 0)
  /\ \A c \in Client : client[c] = "idle"
  /\ sreg' = 0 /\ answered' = FALSE
  /\ UNCHANGED <<left, smflag, reboot_pending, client, registered>>
ClearFlag(from, flag, to) ==
  /\ BootStep(from, to) /\ WriteSMFlag(flag)
  /\ NoTransfer /\ UNCHANGED <<client, sreg, registered>>
ClearSif     == ClearFlag("clearSif", "SIFINIT", "clearCmd")
ClearCmd     == ClearFlag("clearCmd", "CMDINIT", "bootend")
SpinBootEnd  == Spin("bootend", "BOOTEND", "clearBoot")
ClearBootEnd == ClearFlag("clearBoot", "BOOTEND", "cmdinit")

Boot ==
  \/ SpinCmdInit \/ InitCmd0 \/ InitCmd1 \/ SpinSreg
  \/ ClearSif \/ ClearCmd \/ SpinBootEnd \/ ClearBootEnd

-----------------------------------------------------------------------------
Requests ==
  \E c \in Client :
    Bind(c) \/ RData(c) \/ \E hold \in 0..MaxHold : Call(c, hold) \/ CallNoWait(c, hold)

Next ==
  \/ Timeline \/ Requests \/ SIF0Handler \/ Boot \/ ResetCmd
  \/ \E n \in 1..MaxTick : Elapse(n)

Spec == Init /\ [][Next]_vars

(***************************************************************************)
(* The clock finishes its spans; guest code runs on, and every thread and  *)
(* the SIF0 handler get their turn again and again.  No client has to make *)
(* a request and no reboot has to happen.                                  *)
(***************************************************************************)
FairSpec ==
  /\ Spec
  /\ WF_vars(Timeline)
  /\ SF_vars(\E n \in 1..MaxTick : Elapse(n))
  /\ SF_vars(SIF0Handler) /\ SF_vars(Boot)

-----------------------------------------------------------------------------
(* Properties *)

BootPc == {"cmdinit", "init0", "init1", "sreg", "up", "clearSif", "clearCmd", "bootend",
           "clearBoot"}
Delivery == [kind : {"packet", "free", "boot"}, who : Client \cup {Sreg}, due : Nat,
             held : BOOLEAN]

\* Every variable has its type; in particular the clock never passes a
\* delivery that is due (the event loop of rt_clock_tick).
TypeOK ==
  /\ queue \in Seq(Delivery) /\ buf \in Client \cup {Sreg, Empty} /\ sif0 \in BOOLEAN
  /\ registered \in BOOLEAN /\ clock \in Nat
  /\ smflag \subseteq Flag /\ reboot_pending \in BOOLEAN /\ answered \in BOOLEAN
  /\ client \in [Client -> {"idle", "end", "free"}] /\ left \in [Client -> Nat]
  /\ boot \in BootPc /\ sreg \in {0, 1}

\* The completions of client c on their way to it.
Coming(c) ==
  Cardinality({i \in DOMAIN queue : queue[i].who = c}) + (IF buf = c THEN 1 ELSE 0)

\* A client that waits has exactly one completion coming, one that does not
\* has none: no packet is overwritten in the one receive buffer, dropped
\* while it is busy, or delivered twice (rpc.cpp:32-36, 718-724). And it sees
\* its call finished no earlier than the service is: the SIF latency plus the
\* hold of this call (rpc.h, rt_rpc_hold_completion).
OneCompletion ==
  \A c \in Client :
    /\ Coming(c) = (IF client[c] = "idle" THEN 0 ELSE 1)
    /\ client[c] = "idle" => left[c] = 0

\* The boot path goes on past the flags it waits for because the IOP has
\* rebooted, not because of flags from before (sif_selftest.cpp:25-28).
RightReason == boot \in {"clearBoot", "cmdinit", "init0", "init1", "sreg", "up"} => answered

\* A request completes, whatever the other client does with the buffer. With
\* three clients this fails: a packet put off by the retry time is overtaken by
\* one that becomes due in between, and that may happen at every retry. And the
\* boot and every reboot come to their end: the guest's clears of SMFLAG do not
\* erase the flags of the new IOP for good (sif.cpp:41-49).
CallsAndBootsEnd ==
  /\ \A c \in Client : (client[c] # "idle") ~> (client[c] = "idle")
  /\ (boot # "up") ~> (boot = "up")
=============================================================================
