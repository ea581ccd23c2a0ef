------------------------------- MODULE Setup -------------------------------
(***************************************************************************)
(* The start of the program (_tmain in sniffles.cpp, cfg.h, net.h): the    *)
(* configuration is read or created, the user chooses a device and a port  *)
(* or keeps the stored ones, both are stored, and the sniffer listens.     *)
(* The process can be ended at any time and started again, on a machine    *)
(* whose devices have changed.                                             *)
(*                                                                         *)
(* The configuration is a sequence of bytes: the values of the options,    *)
(* binary ints, each followed by a '|', and a text nobody reads.           *)
(***************************************************************************)
EXTENDS Integers, Sequences

CONSTANTS
    DevCounts,  \* how many devices pcap_findalldevs finds (none if it fails)
    DevInputs,  \* the numbers typed at the prompt for a device
    PortInputs, \* the numbers typed at the prompt for a port
    StackPorts, \* what an unsigned short that nobody set can hold
    Moves,      \* whether realloc may move the block
    MaxFile     \* bound: the largest configuration that is edited

\* What an unsigned short holds.
Ports == {n \in Nat : n <= 65535}

ASSUME SetupAssumption ==
    /\ DevCounts \subseteq 0 .. 123
    /\ DevInputs \subseteq Int /\ PortInputs \subseteq Int
    /\ StackPorts \subseteq Ports
    /\ Moves \in BOOLEAN
    /\ MaxFile \in Nat

VARIABLES
    pc,         \* where _tmain is; "off" when the process does not run
    file,       \* the file cfg, a sequence of bytes, or Absent
    existed,    \* bFileExisted
    config,     \* g_config and g_config_size
    static,     \* g_config is the array g_default_config
    devs,       \* the length of devList
    dev, port,  \* cfg_device and cfg_port
    unread,     \* the next thing on stdin is not a number
    lost,       \* history: a new value went to a block realloc had released
    barred,     \* history: a port with a '|' among its bytes was stored
    cut         \* history: the process ended while it created the file

session == <<existed, config, static, devs, dev, port, unread>>

history == <<lost, barred, cut>>

vars == <<pc, file, session, history>>

----------------------------------------------------------------------------
(* The configuration *)

Absent == <<-1>>

Bar == 124

Bytes(n) ==
    <<n % 256, (n \div 256) % 256, (n \div 65536) % 256, (n \div 16777216) % 256>>

Number(b) == b[1] + 256 * b[2] + 65536 * b[3] + 16777216 * b[4]

\* The text behind the two numbers, with its delimiters and the closing zero.
Text == <<Bar>> \o [k \in 1 .. 7 |-> 97] \o <<Bar, 0>>

\* Device 2, port 27015 and the text.
g_default_config == Bytes(2) \o <<Bar>> \o Bytes(27015) \o Text

DEVICE == 0

PORT == 1

\* memchr from offset i on: the offset of the next delimiter, or -1.
NextBar(c, i) ==
    LET bars == {k \in i .. Len(c) - 1 : c[k + 1] = Bar}
    IN  IF bars = {} THEN -1 ELSE CHOOSE k \in bars : \A j \in bars : k <= j

\* Where the value of an option starts.
IndexOf(c, opt) == IF opt = DEVICE THEN 0 ELSE NextBar(c, 0) + 1

\* The delimiters that the lookup of an option steps over are there, and the
\* bytes of an int behind them.
Readable(c, opt) ==
    /\ opt = PORT => NextBar(c, 0) >= 0
    /\ IndexOf(c, opt) + 4 <= Len(c)

get_config_value(c, opt) ==
    Number(SubSeq(c, IndexOf(c, opt) + 1, IndexOf(c, opt) + 4))

\* There is a delimiter behind the value, so that it can be replaced.
Editable(c, opt) ==
    Readable(c, opt) /\ NextBar(c, IndexOf(c, opt)) >= 0

\* Fault: the new value is put in front of the old one.
Inserted(c, block, opt, b) ==
    LET i == IndexOf(c, opt)
    IN  SubSeq(c, 1, i) \o b \o SubSeq(c, i + 1, Len(c))

\* The value b written over the option's in c, and the bytes from the
\* delimiter on moved behind it.  The delimiter is looked for in c; the bytes
\* are read from the block that realloc left, after b was written to it: if
\* the old value held a '|' the move starts inside the new one.
Edited(c, block, opt, b) ==
    LET i       == IndexOf(c, opt)
        d       == NextBar(c, i)
        written == [k \in 1 .. Len(c) |->
                      IF k \in i + 1 .. i + 4 THEN b[k - i] ELSE block[k]]
    IN  SubSeq(c, 1, i) \o b \o SubSeq(written, d + 1, Len(c))

\* What a realloc that shrinks the block leaves of the bytes behind its new
\* end, which the code still reads: they are kept or overwritten.
Shrunk(c, n) ==
    {c, [k \in 1 .. Len(c) |-> IF k <= n THEN c[k] ELSE 0]}

\* A block of n bytes that realloc has copied c to: the bytes behind those of
\* c are ones nobody set.
Moved(c, n, junk) == [k \in 1 .. n |-> IF k <= Len(c) THEN c[k] ELSE junk]

\* set_config_value: realloc, the write of the value, and the move of the
\* bytes behind it.  The pointers to write to were taken before the call: if
\* realloc moved the block, which it may do for every size, both writes go to
\* the old one.
SetValue(opt, n) ==
    LET new == Edited(config, config, opt, Bytes(n)) IN
    \/ /\ Len(new) <= Len(config)
       /\ \E block \in Shrunk(config, Len(new)) :
             config' = Edited(config, block, opt, Bytes(n))
       /\ lost' = lost
    \/ /\ Len(new) > Len(config)
       /\ config' = new
       /\ lost' = lost
    \/ /\ Moves
       /\ \E junk \in {0, Bar} : config' = Moved(config, Len(new), junk)
       /\ lost' = TRUE

----------------------------------------------------------------------------
(* check_config_file *)

NoSession ==
    /\ existed' = FALSE /\ config' = << >> /\ static' = FALSE
    /\ devs' = 0 /\ dev' = 0 /\ port' = 0 /\ unread' = FALSE

\* fopen creates the file.
CreateFile ==
    /\ pc = "off"
    /\ file = Absent
    /\ file' = << >>
    /\ pc' = "creating"
    /\ UNCHANGED <<session, history>>

\* fclose writes the default configuration.
WriteDefault ==
    /\ pc = "creating"
    /\ file' = g_default_config
    /\ config' = g_default_config
    /\ static' = TRUE
    /\ existed' = FALSE
    /\ pc' = "ask"
    /\ UNCHANGED <<devs, dev, port, unread, history>>

\* Fault: the size is asked for before the seek to the end of the file.
LoadNothing ==
    /\ pc = "off"
    /\ file # Absent
    /\ config' = << >>
    /\ static' = FALSE
    /\ existed' = TRUE
    /\ pc' = "ask"
    /\ UNCHANGED <<file, devs, dev, port, unread, history>>

\* The whole file is read into a block of its size.
LoadFile ==
    /\ pc = "off"
    /\ file # Absent
    /\ config' = file
    /\ static' = FALSE
    /\ existed' = TRUE
    /\ pc' = "ask"
    /\ UNCHANGED <<file, devs, dev, port, unread, history>>

----------------------------------------------------------------------------
(* The dialogue.  Any other answer to "Y or N?" repeats the question.       *)
(* getchar takes one letter and scanf one number of what is typed: the rest *)
(* of a line, a word or a number followed by letters, stays on stdin, and   *)
(* scanf leaves there, and sets nothing for, what is not a number.          *)

\* The stored values are used; a lookup that runs out of the configuration
\* ends the process.
KeepConfig ==
    /\ pc = "ask"
    /\ existed
    /\ IF Readable(config, DEVICE) /\ Readable(config, PORT)
         THEN /\ dev' = get_config_value(config, DEVICE)
              /\ port' = get_config_value(config, PORT)
              /\ devs' \in DevCounts
              /\ pc' = "device"
         ELSE pc' = "fault" /\ UNCHANGED <<dev, port, devs>>
    /\ UNCHANGED <<file, existed, config, static, unread, history>>

\* The user wants to choose, or has to: a file created just now is not used.
Choose ==
    /\ pc = "ask"
    /\ devs' \in DevCounts
    /\ unread' \in BOOLEAN
    /\ pc' = "chooseDevice"
    /\ UNCHANGED <<file, existed, config, static, dev, port, history>>

Prompts == {"chooseDevice", "choosePort"}

\* The user types something else than a number.
TypeText ==
    /\ pc \in Prompts
    /\ unread' = TRUE
    /\ UNCHANGED <<pc, file, existed, config, static, devs, dev, port, history>>

\* Fault: the last device is taken for one outside the list.
ChooseDeviceBelow(n) ==
    /\ pc = "chooseDevice"
    /\ ~unread
    /\ n \in 1 .. devs - 1
    /\ dev' = n
    /\ port' \in StackPorts
    /\ unread' \in BOOLEAN
    /\ pc' = "choosePort"
    /\ UNCHANGED <<file, existed, config, static, devs, history>>

\* A number of the list, the int read as a size_t.  The port that is asked
\* for next is a variable nobody has set.
ChooseDevice(n) ==
    /\ pc = "chooseDevice"
    /\ ~unread
    /\ n \in 1 .. devs
    /\ dev' = n
    /\ port' \in StackPorts
    /\ unread' \in BOOLEAN
    /\ pc' = "choosePort"
    /\ UNCHANGED <<file, existed, config, static, devs, history>>

\* Any other number is asked for again.
RefuseDevice(n) ==
    /\ pc = "chooseDevice"
    /\ ~unread
    /\ n \notin 1 .. devs
    /\ unread' \in BOOLEAN
    /\ UNCHANGED <<pc, file, existed, config, static, devs, dev, port, history>>

\* Fault: the number is kept as an int.
ChoosePortWide(n) ==
    /\ pc = "choosePort"
    /\ ~unread
    /\ port' = n
    /\ IF port' > 0 THEN pc' = "device" /\ unread' = FALSE
                    ELSE pc' = "choosePort" /\ unread' \in BOOLEAN
    /\ UNCHANGED <<file, existed, config, static, devs, dev, history>>

\* scanf stores an int where an unsigned short is declared: its lower two
\* bytes are the port, and the upper two go to the stack behind it, where
\* nothing that is used later is taken to be.  Zero is asked for again; after
\* the port nothing is read from stdin any more.
ChoosePort(n) ==
    /\ pc = "choosePort"
    /\ ~unread
    /\ port' = n % 65536
    /\ IF port' > 0 THEN pc' = "device" /\ unread' = FALSE
                    ELSE pc' = "choosePort" /\ unread' \in BOOLEAN
    /\ UNCHANGED <<file, existed, config, static, devs, dev, history>>

\* scanf has set nothing: what port held before is taken for the answer.
PortUnset ==
    /\ pc = "choosePort"
    /\ unread
    /\ port > 0
    /\ pc' = "device"
    /\ unread' = FALSE
    /\ UNCHANGED <<file, existed, config, static, devs, dev, port, history>>

----------------------------------------------------------------------------
(* The device, save_config and the sniffer *)

\* devList[dev - 1]: behind the list there is a null pointer, another one, or
\* no memory.
PickDevice ==
    /\ pc = "device"
    /\ pc' \in IF dev \in 1 .. devs THEN {"setPort"}
                                    ELSE {"setPort", "off", "fault"}
    /\ IF pc' = "off" THEN NoSession ELSE UNCHANGED session
    /\ UNCHANGED <<file, history>>

\* realloc of an array that is not on the heap, or a lookup that runs out of
\* the configuration.
SetFails(opt) ==
    /\ static \/ ~Editable(config, opt)
    /\ pc' = "fault"
    /\ UNCHANGED <<file, session, history>>

SetPort ==
    /\ pc = "setPort"
    /\ \/ SetFails(PORT)
       \/ /\ ~static /\ Editable(config, PORT)
          /\ Len(config) <= MaxFile
          /\ SetValue(PORT, port)
          /\ barred' = (barred \/ \E k \in 1 .. 4 : Bytes(port)[k] = Bar)
          /\ pc' = "setDevice"
          /\ UNCHANGED <<file, existed, static, devs, dev, port, unread, cut>>

SetDevice ==
    /\ pc = "setDevice"
    /\ \/ SetFails(DEVICE)
       \/ /\ ~static /\ Editable(config, DEVICE)
          /\ SetValue(DEVICE, dev)
          /\ pc' = "save"
          /\ UNCHANGED <<file, existed, static, devs, dev, port, unread,
                         barred, cut>>

\* Fault: the configuration is appended to the file.
SaveAtEnd ==
    /\ pc = "save"
    /\ file' = file \o config
    /\ pc' = "listening"
    /\ UNCHANGED <<session, history>>

\* The configuration is written over the start of the file, which is not
\* truncated; then the sniffer runs.
Save ==
    /\ pc = "save"
    /\ file' = config \o SubSeq(file, Len(config) + 1, Len(file))
    /\ pc' = "listening"
    /\ UNCHANGED <<session, history>>

\* The process ends, at any time.
End ==
    /\ pc # "off"
    /\ pc' = "off"
    /\ cut' = (cut \/ pc = "creating")
    /\ NoSession
    /\ UNCHANGED <<file, lost, barred>>

Init ==
    /\ pc = "off"
    /\ file \in {Absent, g_default_config}
    /\ existed = FALSE /\ config = << >> /\ static = FALSE
    /\ devs = 0 /\ dev = 0 /\ port = 0 /\ unread = FALSE
    /\ lost = FALSE /\ barred = FALSE /\ cut = FALSE

Next ==
    \/ CreateFile \/ WriteDefault \/ LoadFile
    \/ KeepConfig \/ Choose
    \/ TypeText \/ PortUnset
    \/ \E n \in DevInputs : ChooseDevice(n) \/ RefuseDevice(n)
    \/ \E n \in PortInputs : ChoosePort(n)
    \/ PickDevice \/ SetPort \/ SetDevice \/ Save
    \/ End

Spec == Init /\ [][Next]_vars

\* A user who answers, and sooner or later with a number that is asked for.
\* Nothing is assumed of what else is typed, or when the process ends.
Answers ==
    /\ WF_vars(KeepConfig \/ Choose)
    /\ WF_vars(\E n \in DevInputs : ChooseDevice(n))
    /\ WF_vars(\E n \in PortInputs : ChoosePort(n) /\ port' > 0)

\* The process goes on when a scanf has returned.
FairSpec == Spec /\ Answers /\ WF_vars(PortUnset)

----------------------------------------------------------------------------
(* Properties *)

\* The values the variables take; a port is what an unsigned short holds, also
\* when it comes back from the file.
TypeOK ==
    /\ pc \in {"off", "creating", "ask", "chooseDevice", "choosePort",
               "device", "setPort", "setDevice", "save", "listening", "fault"}
    /\ file \in Seq(-1 .. 255) /\ config \in Seq(0 .. 255)
    /\ {existed, static, unread, lost, barred, cut} \subseteq BOOLEAN
    /\ devs \in DevCounts \cup {0} /\ dev \in Nat /\ port \in Ports

\* While the sniffer listens, the next start will read from the file the
\* device and the port it listens on, however often values that hold a '|'
\* were replaced in between; unless a value was lost to a moved block.
StoredIsUsed ==
    pc = "listening" /\ ~lost =>
        /\ Readable(file, DEVICE) /\ Readable(file, PORT)
        /\ get_config_value(file, DEVICE) = dev
        /\ get_config_value(file, PORT) = port

\* As long as no port held a '|', the file is empty or as long as the default
\* one: saving does not let it grow.
FileKeepsItsSize ==
    ~barred => file = Absent \/ Len(file) \in {0, Len(g_default_config)}

\* With a file from an earlier start, ended at whatever point, and no port
\* that held a '|', the process fails for one reason only: the stored device
\* is not in the list.  The other ways to fail are a first start, and a file
\* that was created and not written.
KnownFailures ==
    pc = "fault" => static \/ cut \/ barred \/ dev > devs

\* A prompt that reads its number again and again without ever getting one:
\* there is text in front of it, and the number it has is refused.
Stuck ==
    \/ pc = "chooseDevice" /\ (unread \/ devs = 0)
    \/ pc = "choosePort" /\ unread /\ port = 0

\* The dialogue of every start ends, or a prompt is stuck.  Only a list
\* without devices and an answer with something else than a number do that:
\* numbers that are refused do not, nor does text when the stack held a port.
DialogueEnds ==
    (pc \in {"ask"} \cup Prompts) ~> (pc \notin {"ask"} \cup Prompts \/ Stuck)

\* sniffles.cpp, before the sniffer is set up: "Check if chosen device is
\* valid".
ChosenDeviceValid ==
    pc \in {"setPort", "setDevice", "save", "listening"} => dev \in 1 .. devs

\* set_config_value: "set new value then copy other values to the end".
NewValueSet ==
    pc \in {"setDevice", "save"} =>
        Readable(config, PORT) /\ get_config_value(config, PORT) = port
============================================================================
