----------------------------- MODULE DiagDevice -----------------------------
(***************************************************************************)
(* The start of a daemon, up to the diag thread (daemon/src/main.rs): the  *)
(* diag device is opened as a newer one and then as an older one, each     *)
(* with retries (lib/src/diag_newdevice.rs, diag_device.rs), switched to   *)
(* a logging mode, asked for the sizes of its log masks, and given a mask  *)
(* for each log type it has.  The modem answers each request in some       *)
(* container, after and among containers of logs.                          *)
(*                                                                         *)
(* Time passes in the waits between two attempts only, in units of 100 ms. *)
(***************************************************************************)
EXTENDS Naturals, Sequences, FiniteSetsExt

CONSTANTS
  NumTypes,      \* log types 0..NumTypes-1; the code: 16
  ByteBits,      \* bits of a byte of a mask: 8
  Wanted,        \* LOG_CODES_FOR_RAW_PACKET_LOGGING, as <<log type, number>>
  Modems,        \* for each modem, the bits of each log type's mask, or 0
  Kernels,       \* for each kind of device, the requests to switch it accepts
  Tplink,        \* whether that is the device configured
  MaxDuration,   \* the code: 30 s
  FirstDelay,    \* 100 ms
  MaxDelay,      \* 5 s
  MaxNoise,      \* bound: containers without an answer
  MaxRestarts    \* bound: restarts of the daemon

ASSUME DelaysAssumption ==
  /\ MaxDuration \in Nat \ {0} /\ FirstDelay \in Nat \ {0} /\ MaxDelay \in Nat
  /\ FirstDelay <= MaxDelay
ASSUME TypesAssumption ==
  /\ NumTypes \in Nat /\ ByteBits \in Nat \ {0} /\ Wanted \subseteq Nat \X Nat
  /\ Modems \subseteq [0..(NumTypes - 1) -> Nat]

VARIABLES
  phase,      \* how far the daemon is
  waited,     \* time since it began
  opening,    \* when it began to open the device as what it now tries
  delay,      \* before the next attempt
  todo,       \* log types without a mask
  kernel,     \* the device: the requests it accepts ...
  ready,      \* ... if it can be opened now
  mode,       \* its logging mode
  sizes,      \* the modem: bits of each log type's mask
  masks,      \* log codes switched on
  request,    \* being served
  incoming,   \* containers to read
  noise,      \* containers without an answer so far
  restarts

opens   == <<waited, opening, delay>>
device  == <<kernel, ready, mode>>
modem   == <<sizes, masks>>
vars    == <<phase, opens, todo, device, modem, request, incoming, noise, restarts>>

Types == 0..(NumTypes - 1)

-----------------------------------------------------------------------------
(* Opening *)

\* The forms of the request to switch the logging mode: DIAG_IOCTL_SWITCH_LOGGING
\* with a bare mode, or with a structure of some version
Simple(m) == [form |-> "simple", mode |-> m, mask |-> "", param |-> 0]
With(form, m, mask, param) == [form |-> form, mode |-> m, mask |-> mask, param |-> param]

PeripheralMasks == <<"all", "0xFF", "0", "3">>
ModeParams      == <<1, 0, 2>>

\* enable_frame_readwrite_extended's nested loops
V3 == [i \in 1..12 |-> With("V3", "memory", PeripheralMasks[((i - 1) \div 3) + 1],
                            ModeParams[((i - 1) % 3) + 1])]
V2 == [i \in 1..24 |-> With("V2", IF ((i - 1) \div 3) % 2 = 0 THEN "memory" ELSE "USB",
                            PeripheralMasks[((i - 1) \div 6) + 1], ModeParams[((i - 1) % 3) + 1])]
V1All  == With("V1", "memory", "all", 0)
V1None == With("V1", "memory", "0", 1)

\* What each of the two devices tries, in order: enable_frame_readwrite_extended,
\* enable_frame_readwrite
NewAttempts == <<Simple("memory")>> \o V3 \o V2
               \o (IF Tplink THEN <<V1None, V1All>> ELSE <<V1All, V1None>>)
OldAttempts == <<Simple("memory")>> \o (IF Tplink THEN <<V1None, V1All>> ELSE <<V1All>>)
Attempts(as) == IF as = "new" THEN NewAttempts ELSE OldAttempts

\* The first one the device accepts; determine_use_mdm asks it for more, and
\* only the older device takes a refusal for a failure
Accepted(as) == {i \in DOMAIN Attempts(as) : Attempts(as)[i] \in kernel.accepts}
Chosen(as)   == Attempts(as)[Min(Accepted(as))]
Opens(as)    == ready /\ Accepted(as) # {} /\ (as = "old" => kernel.remote)

\* The newer device resets the mode first
ModeAfter(as) == IF ~ready THEN mode
                 ELSE IF Accepted(as) # {} THEN Chosen(as).mode
                 ELSE IF as = "new" THEN "none" ELSE mode

Init ==
  /\ phase = "open new" /\ waited = 0 /\ opening = 0 /\ delay = FirstDelay
  /\ todo = {} /\ kernel \in Kernels /\ ready \in BOOLEAN /\ mode = "none"
  /\ sizes \in Modems /\ masks = {} /\ request = <<>> /\ incoming = <<>>
  /\ noise = 0 /\ restarts = 0

\* The next delay
Backoff(d) == IF 2 * d <= MaxDelay THEN 2 * d ELSE MaxDelay

\* new_with_retries, one attempt and the wait after it.  Not: half of the time
\* for the older device.
GivesUpSoon(as) == waited - opening >= (IF as = "old" THEN MaxDuration \div 2 ELSE MaxDuration)
GivesUp(as)     == waited - opening >= MaxDuration

Open(as) ==
  /\ phase = IF as = "new" THEN "open new" ELSE "open old"
  /\ IF Opens(as)
     THEN /\ phase' = "opened"
          /\ waited' = 0 /\ opening' = 0 /\ delay' = FirstDelay  \* of no further use
     ELSE \/ /\ GivesUp(as)
             /\ phase' = IF as = "new" THEN "open old" ELSE "no device"
             /\ opening' = waited /\ delay' = FirstDelay /\ UNCHANGED waited
          \/ /\ ~GivesUp(as)
             /\ waited' = waited + delay /\ delay' = Backoff(delay)
             /\ UNCHANGED <<phase, opening>>
  /\ mode' = ModeAfter(as)
  /\ UNCHANGED <<todo, kernel, ready, modem, request, incoming, noise, restarts>>

-----------------------------------------------------------------------------
(* Configuring *)

\* build_log_mask_request: bits into bytes, each byte given here as the set of
\* its bits; a byte ends when it is full, or with the last bit
Pack(mask, wanted, last) ==
  LET byte == mask.byte \cup (IF wanted THEN {mask.bits} ELSE {})
  IN IF mask.bits + 1 = ByteBits \/ last
     THEN [bytes |-> Append(mask.bytes, byte), byte |-> {}, bits |-> 0]
     ELSE [bytes |-> mask.bytes, byte |-> byte, bits |-> mask.bits + 1]
Mask(type, size) ==
  LET packed[n \in 0..size] ==
        IF n = 0 THEN [bytes |-> <<>>, byte |-> {}, bits |-> 0]
        ELSE Pack(packed[n - 1], <<type, n - 1>> \in Wanted, n = size)
  IN packed[size].bytes
MaskFor == [m \in Modems |-> [t \in Types |-> Mask(t, m[t])]]  \* computed once

\* config_logs: a mask for each type that has one, in order.  Not: up to the
\* first type that has none.
TypesBeforeGap(n) == \A t \in 0..n : sizes[t] > 0
HasMask(n)        == sizes[n] > 0
TypesToSet == {t \in Types : HasMask(t)}

MaskRequest(t) == [ask |-> "mask", type |-> t, bits |-> sizes[t], mask |-> MaskFor[sizes][t]]

\* write_request.  Not: without the flush, the request stays in the file's buffer.
AskSizesUnflushed ==
  /\ phase = "opened" /\ phase' = "asked for sizes"
  /\ UNCHANGED <<opens, todo, device, modem, request, incoming, noise, restarts>>
AskSizes ==
  /\ phase = "opened" /\ phase' = "asked for sizes"
  /\ request' = <<[ask |-> "sizes"]>>
  /\ UNCHANGED <<opens, todo, device, modem, incoming, noise, restarts>>
SetMask ==
  /\ phase = "set masks" /\ todo # {}
  /\ phase' = "asked for mask"
  /\ request' = <<MaskRequest(Min(todo))>>
  /\ UNCHANGED <<opens, todo, device, modem, incoming, noise, restarts>>

\* get_next_messages_container reads on after a short one, read_response after
\* one that is not for user space
Skip ==
  /\ phase \in {"asked for sizes", "asked for mask"}
  /\ incoming # <<>> /\ Head(incoming).kind \in {"short", "other"}
  /\ incoming' = Tail(incoming)
  /\ UNCHANGED <<phase, opens, todo, device, modem, request, noise, restarts>>

\* The status of the first response of this kind in the container read.  Not:
\* any response will do.
AnswersAtAll(kind) ==
  IF \E i \in DOMAIN Head(incoming).messages : Head(incoming).messages[i].is = kind
  THEN "ok" ELSE "none"
Answers(kind) ==
  LET messages  == Head(incoming).messages
      responses == {i \in DOMAIN messages : messages[i].is = kind}
  IN IF responses = {} THEN "none" ELSE messages[Min(responses)].status

\* retrieve_id_ranges, set_log_mask and config_logs after reading a container:
\* one that does not parse or has no good answer in it is the end of the daemon
Ends(kind) == Head(incoming).kind = "damaged" \/ Answers(kind) # "ok"
ReadContainer ==
  /\ incoming # <<>> /\ Head(incoming).kind \in {"user", "damaged"}
  /\ \/ /\ phase = "asked for sizes"
        /\ IF Ends("sizes") THEN phase' = "failed" /\ UNCHANGED todo
           ELSE phase' = "set masks" /\ todo' = TypesToSet
     \/ /\ phase = "asked for mask"
        /\ IF Ends("mask") THEN phase' = "failed" /\ UNCHANGED todo
           ELSE phase' = "set masks" /\ todo' = todo \ {Min(todo)}
  /\ incoming' = Tail(incoming)
  /\ UNCHANGED <<opens, device, modem, request, noise, restarts>>

\* DeviceReadFailed, DeviceWriteFailed
DeviceFails ==
  /\ phase \in {"opened", "set masks", "asked for sizes", "asked for mask"}
  /\ phase' = "failed"
  /\ UNCHANGED <<opens, todo, device, modem, request, incoming, noise, restarts>>

\* run_diag_read_thread
StartDiagThread ==
  /\ phase = "set masks" /\ todo = {}
  /\ phase' = "recording"
  /\ UNCHANGED <<opens, todo, device, modem, request, incoming, noise, restarts>>

-----------------------------------------------------------------------------
(* The device and its modem *)

BecomeReady ==
  /\ ~ready /\ ready' = TRUE
  /\ UNCHANGED <<phase, opens, todo, kernel, mode, modem, request, incoming, noise, restarts>>

\* The codes a mask switches on, as the modem reads it
CodesOf(r) == {<<r.type, i>> : i \in {j \in 0..(r.bits - 1) :
                                        (j % ByteBits) \in r.mask[(j \div ByteBits) + 1]}}

Container(kind, messages) == [kind |-> kind, messages |-> messages]
Other == [is |-> "log", status |-> "ok"]

\* The modem serves a request or refuses it, and answers; there may be logs in
\* the same container
Answer ==
  /\ request # <<>>
  /\ \E status \in {"ok", "refused"}, logBefore, logAfter \in BOOLEAN :
       LET r      == request[1]
           answer == <<[is |-> r.ask, status |-> status]>>
       IN /\ masks' = IF r.ask = "mask" /\ status = "ok"
                      THEN {c \in masks : c[1] # r.type} \cup CodesOf(r) ELSE masks
          /\ incoming' = Append(incoming,
                Container("user", (IF logBefore THEN <<Other>> ELSE <<>>) \o answer
                                  \o (IF logAfter THEN <<Other>> ELSE <<>>)))
  /\ request' = <<>>
  /\ UNCHANGED <<phase, opens, todo, device, sizes, noise, restarts>>

\* A container without an answer: a short one, one of another kind, a damaged
\* one, or logs of codes switched on
Noise(kind) ==
  /\ phase \in {"asked for sizes", "asked for mask"} /\ noise < MaxNoise
  /\ kind = "user" => masks # {}
  /\ incoming' = Append(incoming, Container(kind, <<Other>>))
  /\ noise' = noise + 1
  /\ UNCHANGED <<phase, opens, todo, device, modem, request, restarts>>

\* The daemon ends, or restarts with a new configuration.  The device forgets
\* what it was asked and has not been read; it may keep its masks and its mode,
\* and may need some time before it can be opened again.
Restart ==
  /\ restarts < MaxRestarts /\ restarts' = restarts + 1
  /\ phase' = "open new" /\ waited' = 0 /\ opening' = 0 /\ delay' = FirstDelay
  /\ todo' = {} /\ ready' \in BOOLEAN /\ mode' \in {mode, "none"} /\ masks' \in {masks, {}}
  /\ request' = <<>> /\ incoming' = <<>>
  /\ UNCHANGED <<kernel, sizes, noise>>

Daemon == \/ \E as \in {"new", "old"} : Open(as)
          \/ AskSizes \/ SetMask \/ Skip \/ ReadContainer \/ StartDiagThread
Device == BecomeReady \/ Answer \/ DeviceFails \/ \E kind \in {"short", "other", "damaged", "user"} : Noise(kind)

Next == Daemon \/ Device \/ Restart

\* The daemon is one task; the modem serves its requests.  That the device can
\* be opened at last is not assumed.
Spec     == Init /\ [][Next]_vars
FairSpec == Spec /\ WF_vars(Daemon) /\ WF_vars(Answer)

-----------------------------------------------------------------------------
Phases == {"open new", "open old", "opened", "asked for sizes", "set masks", "asked for mask",
           "recording", "failed", "no device"}

TypeOK ==
  /\ phase \in Phases /\ waited \in Nat /\ opening \in 0..waited /\ delay \in 1..MaxDelay
  /\ todo \subseteq Types /\ kernel \in Kernels /\ ready \in BOOLEAN
  /\ mode \in {"none", "memory", "USB"} /\ sizes \in Modems
  /\ masks \subseteq (Types \X Nat) /\ Len(request) <= 1
  /\ noise \in 0..MaxNoise /\ restarts \in 0..MaxRestarts

\* Each device is tried for MaxDuration (30 s), and less than one delay longer;
\* the daemon does without a device only after both
Patience ==
  /\ waited - opening < MaxDuration + MaxDelay
  /\ waited < 2 * (MaxDuration + MaxDelay)
  /\ phase = "no device" => waited >= 2 * MaxDuration

\* When the diag thread starts, the modem logs every wanted code that its masks
\* have a bit for, and no other: whatever was in the containers, and whatever
\* an earlier start had left switched on, every mask was served
LogsAreOn ==
  phase = "recording" =>
    {c \in masks : sizes[c[1]] > 0} = {c \in Wanted : c[1] \in Types /\ c[2] < sizes[c[1]]}

\* Every start comes to an end, if the modem serves the requests it gets
StartEnds == []<>(phase \in {"recording", "failed", "no device"})

\* lib/src/diag_newdevice.rs:374: "We accept USB mode if Memory mode fails"
UsbOnlyIfMemoryFails ==
  mode = "USB" => \A i \in DOMAIN Attempts("new") :
                    Attempts("new")[i].mode = "memory" => Attempts("new")[i] \notin kernel.accepts

\* lib/src/diag_device.rs:225 and :256 log "skipping log response...": logs
\* among the answers are skipped, and the daemon goes on
LogsAreSkipped ==
  [][incoming # <<>> /\ Head(incoming).kind = "user" /\ phase' = "failed" =>
       \E i \in DOMAIN Head(incoming).messages : Head(incoming).messages[i].is # "log"
     ]_<<phase, incoming>>
=============================================================================
