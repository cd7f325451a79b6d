---------------------------------- MODULE Ps2 ----------------------------------
(***************************************************************************)
(* The driver of the PS/2 controller (src/kernel/src/ps2.c) and the        *)
(* loading of the keyboard module (src/modules/atkbd/src/main.c), against  *)
(* a controller and two devices that answer in their own time.             *)
(*                                                                         *)
(* A byte is the set of its bits that are 1.  The driver's functions are   *)
(* sequences of port accesses; host.todo holds the accesses that are left, *)
(* so that the controller, the devices and the interrupt handler can step  *)
(* between any two of them.                                                *)
(***************************************************************************)
EXTENDS Integers, Sequences

CONSTANTS
  Kinds,          \* what may be attached to a port: subset of DOMAIN Id
  Slow,           \* who may act after the driver has polled
  ReplyIrq,       \* does an answer of the controller itself raise IRQ1
  Chatter,        \* the ports whose device may send a byte unasked
  Resends,        \* the commands a device may ask for again
  MaxResend,      \* how often it does
  MaxChatter      \* how many unasked bytes are sent

Ps2Assumption ==
  /\ Slow \subseteq {"device", "controller"} /\ ReplyIrq \in BOOLEAN
  /\ Chatter \subseteq {1, 2}
  /\ Resends \subseteq 0..255 /\ MaxResend \in Nat /\ MaxChatter \in Nat

Ports == {1, 2}

Byte(n) == {i \in 0..7 : (n \div 2^i) % 2 = 1}

PS2_ACK == Byte(250)
PS2_RESEND == Byte(254)
PS2_RESULT_PASS == {}
PS2_CFG_INT(p) == p - 1
PS2_CFG_DIS(p) == p + 3
PS2_CFG_TRN2 == 6
PS2_CMD_ENA == <<"ENA1", "ENA2">>
PS2_CMD_DIS == <<"DIS1", "DIS2">>
PS2_CMD_TES == <<"TES1", "TES2">>

(* The tests are chosen by bits, and PS2_TEST_CTRL is 0x00.                *)
PS2_TEST_CTRL == {}
PS2_TEST_PORT(p) == {p - 1}

(* The answer of each kind of device to the identify command, and the      *)
(* number PS2_DEV_* that two bytes make, the first one high.  NONE is      *)
(* 0xFFFF.                                                                 *)
Id == [kbd |-> <<Byte(171), Byte(131)>>, mouse |-> <<Byte(0)>>,
       wheel |-> <<Byte(3)>>, none |-> <<>>]
PS2_DEV_NONE == <<Byte(255), Byte(255)>>
IdOf(kind) ==
  CASE kind = "none" -> PS2_DEV_NONE
    [] Len(Id[kind]) = 1 -> <<Id[kind][1], Byte(0)>>
    [] OTHER -> Id[kind]
PS2_IS_KBD(id) == id \in {<<Byte(171), Byte(n)>> : n \in {65, 193, 131}}

VARIABLES
  ctl,     \* the controller: cfg, the buffers and what its next data byte is
  dev,     \* the devices
  host,    \* the driver: the accesses left, its locals and ps2_port
  sent     \* unasked bytes sent so far

vars == <<ctl, dev, host, sent>>

-----------------------------------------------------------------------------
(* The accesses the functions are made of.                                 *)

ps2_send_cmd(c) == << <<"cmd", c>> >>
ps2_read_data == << <<"read">> >>

ps2_send_data(p, b) ==
  (IF p = 2 THEN ps2_send_cmd("WRINP2") ELSE <<>>) \o << <<"data", b>> >>

(* Only the bits of 0x73 can be changed.                                   *)
ps2_config(ena, dis) ==
  ps2_send_cmd("RDCFG") \o ps2_read_data
    \o << <<"modify", ena \cap Byte(115), dis \cap Byte(115)>> >>

ps2_enable(p) ==
  ps2_send_cmd(PS2_CMD_ENA[p]) \o ps2_config({PS2_CFG_INT(p)}, {})

ps2_disable(p) == ps2_send_cmd(PS2_CMD_DIS[p])

ps2_self_test(tests) ==
  (IF tests \cap PS2_TEST_CTRL # {}
     THEN ps2_send_cmd("TEST") \o ps2_read_data ELSE <<>>)
  \o (IF tests \cap PS2_TEST_PORT(1) # {}
        THEN ps2_send_cmd(PS2_CMD_TES[1]) \o ps2_read_data ELSE <<>>)
  \o (IF tests \cap PS2_TEST_PORT(2) # {}
        THEN ps2_send_cmd(PS2_CMD_TES[2]) \o ps2_read_data ELSE <<>>)

ps2_init ==
  ps2_disable(1) \o ps2_disable(2) \o << <<"inb">> >>
  \o ps2_config({}, {PS2_CFG_INT(1), PS2_CFG_INT(2), PS2_CFG_TRN2})
  \o << <<"dual">> >>
  \o ps2_self_test(PS2_TEST_CTRL) \o << <<"control">> >>
  \o << <<"if", "dual", ps2_enable(2) \o ps2_config({}, {}) \o << <<"still">> >>, <<>> >> >>
  \o ps2_self_test(PS2_TEST_PORT(1)) \o << <<"verdict", 1>> >>
  \o << <<"if", "dual", ps2_self_test(PS2_TEST_PORT(2)) \o << <<"verdict", 2>> >>,
          << <<"lacks", 2>> >> >>,
        <<"register">>,
        <<"if", "port1", ps2_enable(1), <<>> >>,
        <<"if", "port2", ps2_enable(2), <<>> >> >>
  \o ps2_config({PS2_CFG_INT(1), PS2_CFG_INT(2)}, {})
  \o << <<"initialized">> >>

(* What identify sends first, and what it does when the device does not    *)
(* acknowledge it, or the identify command.                                *)
ps2_identify(p) ==
  ps2_config({}, {}) \o << <<"keep">> >>
  \o ps2_config({}, {PS2_CFG_INT(p)})
  \o ps2_send_data(p, Byte(245)) \o ps2_read_data
  \o << <<"ack", p, Byte(245), << <<"restore">>, <<"return", p>> >> >> >>
  \o ps2_send_data(p, Byte(242)) \o ps2_read_data
  \o << <<"ack", p, Byte(242),
          ps2_send_data(p, Byte(244)) \o ps2_read_data
            \o << <<"restore">>, <<"return", p>> >> >> >>
  \o ps2_read_data \o << <<"high">> >>
  \o ps2_read_data \o << <<"low">> >>
  \o ps2_send_data(p, Byte(244)) \o ps2_read_data
  \o << <<"restore">>, <<"return", p>> >>

(* The rest of keyboard_load once it has its port: the scancode set is     *)
(* chosen and the port enabled.  The acknowledgement of the set's number   *)
(* is not read.                                                            *)
keyboard_setup(p) ==
  ps2_config({}, {PS2_CFG_INT(p)})
  \o ps2_send_data(p, Byte(240)) \o ps2_read_data
  \o ps2_send_data(p, Byte(2))
  \o ps2_config({PS2_CFG_INT(p)}, {})
  \o ps2_enable(p)
  \o << <<"listen", p>> >>

-----------------------------------------------------------------------------
Init ==
  /\ ctl \in [cfg : {{PS2_CFG_INT(1), PS2_CFG_TRN2}}, next : {"port1"},
              in : {<<>>}, out : {<<>>, << [byte |-> Byte(28), from |-> 0] >>},
              due : {<<>>}, dual : BOOLEAN, bad : SUBSET Ports,
              tested : {FALSE}]
  /\ dev \in [Ports -> [kind : Kinds, scan : {TRUE}, resent : {0}]]
  /\ ~ctl.dual => dev[2].kind = "none" /\ 2 \notin ctl.bad
  \* ps2_port[PS2_PORT2] lies past the array of two: its value is that of
  \* whatever the linker put there
  /\ \E beyond \in BOOLEAN :
       host = [todo |-> ps2_init, r |-> {}, kept |-> {}, id |-> PS2_DEV_NONE,
               flags |-> {"port1"} \cup (IF beyond THEN {"port2"} ELSE {}),
               phase |-> "init", port |-> 0, before |-> [cfg |-> {}, dev |-> dev]]
  /\ sent = 0

-----------------------------------------------------------------------------
(* The controller and the devices.                                         *)

Present(p) == dev[p].kind # "none"

(* Answer(p, b) is what device p says to byte b.                           *)
Answer(p, b) ==
  LET say(bytes) == [i \in DOMAIN bytes |-> [byte |-> bytes[i], from |-> p]]
  IN IF b = Byte(242) THEN say(<<PS2_ACK>> \o Id[dev[p].kind])
     ELSE say(<<PS2_ACK>>)

Reply(bytes) == [ctl EXCEPT !.in = <<>>,
                   !.due = @ \o [i \in DOMAIN bytes |-> [byte |-> bytes[i], from |-> 0]]]

(* The controller takes a command.  Bit DIS2 of a controller with one port *)
(* does not change.                                                        *)
TakeCommand ==
  /\ ctl.in # <<>> /\ ctl.in[1] = "cmd"
  /\ LET c == ctl.in[2] IN
     ctl' = CASE c = "RDCFG" -> Reply(<<ctl.cfg>>)
              [] c = "WRCFG" -> [Reply(<<>>) EXCEPT !.next = "cfg"]
              [] c = "WRINP2" -> [Reply(<<>>) EXCEPT !.next = "port2"]
              [] c = "TEST" -> [Reply(<<Byte(85)>>) EXCEPT !.tested = TRUE]
              [] OTHER ->
                   LET p == CHOOSE q \in Ports : c \in {PS2_CMD_TES[q], PS2_CMD_ENA[q], PS2_CMD_DIS[q]}
                   IN CASE c = PS2_CMD_TES[p] -> Reply(<<IF p \in ctl.bad THEN Byte(1) ELSE Byte(0)>>)
                        [] c = PS2_CMD_ENA[p] -> [Reply(<<>>) EXCEPT !.cfg = @ \ {PS2_CFG_DIS(p)}]
                        [] OTHER -> [Reply(<<>>) EXCEPT !.cfg =
                                       IF p = 1 \/ ctl.dual THEN @ \cup {PS2_CFG_DIS(p)} ELSE @]
  /\ UNCHANGED <<dev, host, sent>>

(* The controller takes a data byte: its new configuration, or a byte for  *)
(* a device.  A device may ask for a command again.                        *)
TakeData ==
  /\ ctl.in # <<>> /\ ctl.in[1] = "data"
  /\ LET b == ctl.in[2]
         p == IF ctl.next = "port2" THEN 2 ELSE 1
         taken == [ctl EXCEPT !.in = <<>>, !.next = "port1"]
     IN IF ctl.next = "cfg"
          THEN /\ ctl' = [taken EXCEPT !.cfg = b]
               /\ UNCHANGED dev
        ELSE IF ~Present(p)
          THEN ctl' = taken /\ UNCHANGED dev
        ELSE \/ /\ ctl' = [taken EXCEPT !.due = @ \o Answer(p, b)]
                /\ dev' = [dev EXCEPT ![p].scan =
                             CASE b = Byte(245) -> FALSE
                               [] b = Byte(244) -> TRUE
                               [] OTHER -> @]
             \/ /\ \E n \in Resends : b = Byte(n)
                /\ dev[p].resent < MaxResend
                /\ ctl' = [taken EXCEPT !.due = Append(@, [byte |-> PS2_RESEND, from |-> p])]
                /\ dev' = [dev EXCEPT ![p].resent = @ + 1]
  /\ UNCHANGED <<host, sent>>

(* The next answer reaches the output buffer.                              *)
Deliver ==
  /\ ctl.out = <<>> /\ ctl.due # <<>>
  /\ ctl' = [ctl EXCEPT !.out = <<Head(ctl.due)>>, !.due = Tail(@)]
  /\ UNCHANGED <<dev, host, sent>>

(* A device sends a byte nobody asked for: a key is pressed.               *)
Unasked ==
  /\ sent < MaxChatter
  /\ \E p \in Chatter :
       /\ Present(p) /\ dev[p].scan /\ PS2_CFG_DIS(p) \notin ctl.cfg
       /\ ctl' = [ctl EXCEPT !.due = Append(@, [byte |-> Byte(28), from |-> p])]
  /\ sent' = sent + 1
  /\ UNCHANGED <<dev, host>>

(* The handlers read whatever the output buffer holds; no listener is      *)
(* registered yet when the driver is still talking to a device.            *)
Interrupt(p) ==
  /\ "irq" \in host.flags /\ PS2_CFG_INT(p) \in ctl.cfg
  /\ ctl.out # <<>>
  /\ \/ ctl.out[1].from = p
     \/ ctl.out[1].from = 0 /\ p = 1 /\ ReplyIrq
  /\ ctl' = [ctl EXCEPT !.out = <<>>]
  /\ UNCHANGED <<dev, host, sent>>

ps2_port1_interrupt == Interrupt(1)
ps2_port2_interrupt == Interrupt(2)

(* Those who are not Slow have acted before the driver looks again.        *)
Settled ==
  /\ ctl.in # <<>> => "controller" \in Slow
  /\ (ctl.out = <<>> /\ ctl.due # <<>>)
       => IF Head(ctl.due).from = 0 THEN "controller" \in Slow ELSE "device" \in Slow

-----------------------------------------------------------------------------
(* The driver.                                                             *)

Op == Head(host.todo)
Rest == Tail(host.todo)

(* ps2_poll(buffer): may the buffer be used?  The loop gives up as soon as *)
(* the time is still less than start + ps2_poll_timeout, that is at its    *)
(* first turn.  (A task kept from running for all that time polls again,   *)
(* which is the same as polling later.)                                    *)
ps2_poll(usable) == usable

Write ==
  /\ host.todo # <<>> /\ Op[1] \in {"cmd", "data"} /\ Settled
  /\ ctl' = IF ps2_poll(ctl.in = <<>>) THEN [ctl EXCEPT !.in = Op] ELSE ctl
  /\ host' = [host EXCEPT !.todo = Rest]
  /\ UNCHANGED <<dev, sent>>

Read ==
  /\ host.todo # <<>> /\ Op[1] = "read" /\ Settled
  /\ IF ps2_poll(ctl.out # <<>>)
       THEN /\ ctl' = [ctl EXCEPT !.out = <<>>]
            /\ host' = [host EXCEPT !.todo = Rest, !.r = ctl.out[1].byte]
       ELSE /\ host' = [host EXCEPT !.todo = Rest, !.r = {}]
            /\ UNCHANGED ctl
  /\ UNCHANGED <<dev, sent>>

(* Dangling data is read without polling.                                  *)
Discard ==
  /\ host.todo # <<>> /\ Op[1] = "inb" /\ Settled
  /\ ctl' = [ctl EXCEPT !.out = <<>>]
  /\ host' = [host EXCEPT !.todo = Rest]
  /\ UNCHANGED <<dev, sent>>

(* Modified(ena, dis) is the rest of ps2_config once the byte is read: it  *)
(* is written back unless nothing changes.                                 *)
Modified(ena, dis) ==
  LET cfg == (host.r \ dis) \cup ena
  IN IF ena = {} /\ dis = {} THEN [host EXCEPT !.todo = Rest]
     ELSE [host EXCEPT !.r = cfg,
             !.todo = ps2_send_cmd("WRCFG") \o ps2_send_data(0, cfg) \o Rest]

(* Variant: the answer to a byte that was resent is not read. *)
ResentUnread(p, b, fail) ==
  [host EXCEPT !.todo =
     CASE host.r = PS2_RESEND -> ps2_send_data(p, b) \o Rest
       [] host.r = PS2_ACK -> Rest
       [] OTHER -> fail]

(* Acknowledged(p, b, fail) looks at the answer to byte b.                 *)
Acknowledged(p, b, fail) ==
  [host EXCEPT !.todo =
     CASE host.r = PS2_RESEND -> ps2_send_data(p, b) \o ps2_read_data \o @
       [] host.r = PS2_ACK -> Rest
       [] OTHER -> fail]

(* The two bytes of the identification.                                    *)
Identified ==
  CASE Op[1] = "high" -> [host EXCEPT !.todo = Rest, !.id = <<host.r, {}>>]
    [] Op[1] = "low" -> [host EXCEPT !.todo = Rest, !.id[2] = host.r]

(* The configuration identify found is written back.                       *)
Restored == [host EXCEPT !.todo = ps2_config(host.kept, {}) \o Rest]

(* The decisions of ps2_init: is there a second port, does a port work.    *)
Detected ==
  LET without(f) == [host EXCEPT !.todo = Rest, !.flags = @ \ f]
      two == PS2_CFG_DIS(2) \in host.r
  IN CASE Op[1] = "dual" ->
            IF two THEN [host EXCEPT !.todo = Rest, !.flags = @ \cup {"dual"}]
            ELSE without({"dual"})
       [] Op[1] = "control" -> without({})
       [] Op[1] = "still" ->
            IF two THEN without({"dual"})
            ELSE [host EXCEPT !.todo = ps2_disable(2) \o Rest]
       [] Op[1] = "verdict" ->
            IF host.r = PS2_RESULT_PASS THEN without({})
            ELSE IF Op[2] = 1 THEN without({"port1"}) ELSE without({"port2", "dual"})
       [] Op[1] = "lacks" -> without({"port2"})
       [] Op[1] = "if" ->
            [host EXCEPT !.todo =
               (IF Op[2] \in host.flags THEN Op[3] ELSE Op[4]) \o Rest]
       [] Op[1] = "register" ->
            [host EXCEPT !.todo = Rest, !.flags = @ \cup {"irq"}]
       [] Op[1] = "initialized" -> [host EXCEPT !.todo = Rest, !.phase = "ready"]

(* The steps of the driver between its accesses.                           *)
Decide ==
  /\ host.todo # <<>> /\ Op[1] \notin {"cmd", "data", "read", "inb"}
  /\ host' = CASE Op[1] = "modify" -> Modified(Op[2], Op[3])
               [] Op[1] = "keep" -> [host EXCEPT !.todo = Rest, !.kept = host.r]
               [] Op[1] = "ack" -> Acknowledged(Op[2], Op[3], Op[4])
               [] Op[1] \in {"high", "low"} -> Identified
               [] Op[1] = "restore" -> Restored
               [] Op[1] = "return" ->
                    [host EXCEPT !.todo = Rest, !.phase = "found", !.port = Op[2]]
               [] Op[1] = "listen" ->
                    [host EXCEPT !.todo = Rest, !.phase = "loaded", !.port = Op[2]]
               [] OTHER -> Detected
  /\ UNCHANGED <<ctl, dev, sent>>

Identify(p) ==
  host' = [host EXCEPT !.todo = ps2_identify(p), !.id = PS2_DEV_NONE, !.port = p,
             !.phase = "identify", !.before = [cfg |-> ctl.cfg, dev |-> dev]]

(* keyboard_load: a first port with a keyboard, or with nothing that       *)
(* answers, is taken; otherwise the second must have a keyboard.           *)
keyboard_load ==
  /\ host.todo = <<>> /\ Settled
  /\ \/ host.phase = "ready" /\ Identify(1)
     \/ /\ host.phase = "found" /\ host.port = 1
        /\ IF PS2_IS_KBD(host.id) \/ host.id = PS2_DEV_NONE
             THEN host' = [host EXCEPT !.todo = keyboard_setup(1), !.phase = "setup"]
             ELSE Identify(2)
     \/ /\ host.phase = "found" /\ host.port = 2
        /\ IF PS2_IS_KBD(host.id)
             THEN host' = [host EXCEPT !.todo = keyboard_setup(2), !.phase = "setup"]
             ELSE host' = [host EXCEPT !.phase = "nodev"]
  /\ UNCHANGED <<ctl, dev, sent>>

Finished ==
  /\ host.phase \in {"loaded", "nodev"}
  /\ UNCHANGED vars

Driver == Write \/ Read \/ Discard \/ Decide \/ keyboard_load
Hardware == TakeCommand \/ TakeData \/ Deliver

Next ==
  \/ Driver \/ Hardware \/ Unasked
  \/ ps2_port1_interrupt \/ ps2_port2_interrupt
  \/ Finished

Spec == Init /\ [][Next]_vars /\ WF_vars(Driver) /\ WF_vars(Hardware)

-----------------------------------------------------------------------------
Bytes == SUBSET (0..7)
Sent == [byte : Bytes, from : 0..2]

(* Bytes are bytes, the output buffer holds at most one, and the driver is *)
(* in one of its phases.                                                   *)
TypeOK ==
  /\ ctl.cfg \in Bytes /\ ctl.next \in {"port1", "port2", "cfg"}
  /\ Len(ctl.in) \in {0, 2} /\ Len(ctl.out) \in {0, 1}
  /\ \A i \in DOMAIN ctl.due : ctl.due[i] \in Sent
  /\ host.r \in Bytes /\ host.kept \in Bytes /\ host.id \in Bytes \X Bytes
  /\ host.flags \subseteq {"port1", "port2", "dual", "irq"}
  /\ host.phase \in {"init", "ready", "identify", "found", "setup", "loaded", "nodev"}
  /\ host.port \in 0..2

(* At(phase): the driver has come so far, and the controller has taken     *)
(* what it was sent.                                                       *)
At(phase) == host.phase = phase /\ ctl.in = <<>>

(* ps2_init finds out whether there is a second port, also on a controller *)
(* that ignores commands for it, and enables the first port exactly if it  *)
(* passed its test.                                                        *)
PortsDetected ==
  At("ready") =>
    /\ "dual" \in host.flags <=> ctl.dual /\ 2 \notin ctl.bad
    /\ PS2_CFG_DIS(1) \notin ctl.cfg <=> 1 \notin ctl.bad

(* ps2_identify answers with the number of the device at the port, or      *)
(* PS2_DEV_NONE where there is none, whatever the device asked to be       *)
(* resent.  ("Either no device is attached or there was an input error",   *)
(* ps2.h, of PS2_DEV_NONE.)                                                *)
AttachedIsFound ==
  At("found") => host.id = IdOf(dev[host.port].kind)

(* When ps2_identify is done the controller has the configuration it had   *)
(* when it began ("Restore Configuration", ps2.c).                         *)
ConfigKept ==
  At("found") => ctl.cfg = host.before.cfg

(* ... and the device scans again, and no answer of it is left for the     *)
(* next function to take for its own.                                      *)
LeftAsFound ==
  At("found") =>
    /\ \A p \in Ports : dev[p].scan = host.before.dev[p].scan
    /\ ctl.due = <<>> /\ ctl.out = <<>>

(* A keyboard whose port worked when it was identified can be heard when   *)
(* it is loaded, although the setup leaves an acknowledgement unread and   *)
(* ps2_config takes it for the configuration.                              *)
StillHeard ==
  (At("loaded") /\ PS2_CFG_DIS(host.port) \notin host.before.cfg) =>
    /\ PS2_CFG_INT(host.port) \in ctl.cfg
    /\ PS2_CFG_DIS(host.port) \notin ctl.cfg

(* keyboard_load comes to an end, also when keys are                       *)
(* pressed and the interrupt handler takes answers: a device resends       *)
(* finitely often, and nothing else is asked twice.                        *)
LoadEnds == <>(host.phase \in {"loaded", "nodev"})

-----------------------------------------------------------------------------
(* What the source says of itself and the code does not do.                  *)

(* The port of a keyboard that is loaded is enabled ("Enable a PS/2        *)
(* Device", ps2.h, of ps2_enable), if its port passed its test.            *)
KeyboardEnabled ==
  (At("loaded") /\ host.port \notin ctl.bad)
    => PS2_CFG_DIS(host.port) \notin ctl.cfg

(* ps2_init asks the controller to test itself ("Perform the controller    *)
(* self test", ps2.c).                                                     *)
ControllerTested == At("ready") => ctl.tested

(* A second port that is there and passed its test is enabled by ps2_init  *)
(* ("Enable the respective ports", ps2.c).                                 *)
SecondEnabled ==
  (At("ready") /\ ctl.dual /\ 2 \notin ctl.bad)
    => PS2_CFG_DIS(2) \notin ctl.cfg
=============================================================================
