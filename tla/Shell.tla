------------------------------- MODULE Shell --------------------------------
(***************************************************************************)
(* The MiniOS shell (the shell part of src/drivers/virtio_net.c) over the  *)
(* network stack of Net: shell_run's loop of shell_readline,               *)
(* execute_command (parse_args, the command table) and the net_poll that   *)
(* follows every command, with the commands that change state: ping        *)
(* (parse_ip, net_ping, then its loop of net_poll calls), diskread and     *)
(* diskwrite (atoi, the text assembled into the sector buffer, the ATA     *)
(* call), halt and reboot.  help, clear, echo, meminfo and netinfo only    *)
(* print.                                                                  *)
(*                                                                         *)
(* Keystrokes are what keyboard_getchar returns: one-character strings for *)
(* printable characters, and names for the control characters the editor   *)
(* tells apart.  The user types whole lines from a small set; a line is    *)
(* consumed one keystroke per step.  The ATA call is recorded, not run:    *)
(* the Ata module models the driver.                                       *)
(***************************************************************************)
EXTENDS Integers, Sequences, FiniteSets
LOCAL INSTANCE SequencesExt
LOCAL INSTANCE Bitwise

CONSTANTS OurIp, Hosts, OurMac, Broadcast, Macs, CacheSize, Frames,
          MaxSteps, MaxPings

CONSTANTS
  Addr,        \* the uint32_t address of each IP, as parse_ip builds it
  OtherIp,     \* a host of Hosts standing for every address not in Addr
  Lines,       \* the keystroke sequences a user types
  Names,       \* [command |-> the name the table gives it, as keystrokes]
  MaxLen,      \* MAX_CMD_LEN (256)
  MaxArgs,     \* MAX_ARGS (16)
  TextLimit,   \* the 500 bytes cmd_diskwrite fills at most
  AtaPresent,  \* ata_is_present()
  MaxLines     \* bound on the lines typed

VARIABLES net_inited, arp_cache, ping_seq, out, got, latest, reach, steps

VARIABLES
  spc,      \* where shell_run is: "read", "ping" (its poll loop), "poll"
            \* (the net_poll after a command), "halted"
  typing,   \* the keystrokes of the line being typed not yet read
  keys,     \* history: the keystrokes the current shell_readline has read
  buffer,   \* cmd_buffer[0 .. pos - 1]
  ran,      \* history: the last command line executed
  disk,     \* the last ATA call a command made
  lines

N == INSTANCE Net
P == INSTANCE Printf

netvars == <<net_inited, arp_cache, ping_seq, out, got, latest, reach, steps>>
shellvars == <<spc, typing, keys, buffer, ran, disk, lines>>
vars == <<netvars, shellvars>>

Enter == {"ENTER", "CR"}      \* '\n', '\r'
Erase == {"BS", "DEL"}        \* '\b', 127
CtrlC == "ETX"                \* 3
Controls == Enter \cup Erase \cup {CtrlC, "TAB"}
Printable(c) == c \notin Controls   \* ' ' <= c < 127
Blank == {" ", "TAB"}
DigitChars == <<"0", "1", "2", "3", "4", "5", "6", "7", "8", "9">>
Digits == ToSet(DigitChars)
DigitVal(c) == CHOOSE n \in 0..9 : DigitChars[n + 1] = c

(* The address ata_read_sectors and ata_write_sectors put on the bus: the  *)
(* low 28 bits of the uint32_t LBA, from the int atoi returned.  2^28      *)
(* divides 2^32, so this is the same for the int and its uint32_t.         *)
LBA28(x) == x % 2^28

NoRun == [cmd |-> "none", argv |-> <<>>, keys |-> <<>>, pinged |-> -1, shown |-> <<>>]
NoDisk == [op |-> "none", lba |-> 0, text |-> <<>>]

(***************************************************************************)
(* parse_args: skip blanks, start an argument, run to the next blank and   *)
(* cut it there, while fewer than max_args arguments were found.            *)
(***************************************************************************)
RECURSIVE SkipBlanks(_, _)
SkipBlanks(s, i) == IF i <= Len(s) /\ s[i] \in Blank THEN SkipBlanks(s, i + 1) ELSE i

RECURSIVE ArgEnd(_, _)
ArgEnd(s, i) == IF i <= Len(s) /\ s[i] \notin Blank THEN ArgEnd(s, i + 1) ELSE i

(* Mutant: a single blank skipped between arguments.                       *)
RECURSIVE ParseFrom_single_skip(_, _, _)
ParseFrom_single_skip(s, i, argv) ==
  IF i > Len(s) \/ Len(argv) >= MaxArgs THEN argv
  ELSE LET j == IF s[i] \in Blank THEN i + 1 ELSE i
       IN IF j > Len(s) THEN argv
          ELSE ParseFrom_single_skip(s, ArgEnd(s, j) + 1,
                                     Append(argv, SubSeq(s, j, ArgEnd(s, j) - 1)))

RECURSIVE ParseFrom(_, _, _)
ParseFrom(s, i, argv) ==
  IF i > Len(s) \/ Len(argv) >= MaxArgs THEN argv
  ELSE LET j == SkipBlanks(s, i)
       IN IF j > Len(s) THEN argv
          ELSE ParseFrom(s, ArgEnd(s, j) + 1, Append(argv, SubSeq(s, j, ArgEnd(s, j) - 1)))

parse_args(s) == ParseFrom(s, 1, <<>>)

(***************************************************************************)
(* parse_ip: three octets ended by '.', the fourth by a non-digit, each    *)
(* accumulated as a * 10 + digit in uint32_t, then d<<24 | c<<16 | b<<8 | a.*)
(* TLC's integers are 32-bit signed: the lines typed keep every octet and  *)
(* the fourth octet's shift below 2^31, so no uint32_t wrap is left out.   *)
(***************************************************************************)
RECURSIVE Octet(_, _, _, _)
Octet(s, i, v, last) ==
  IF i > Len(s) \/ (last /\ s[i] \notin Digits) \/ (~last /\ s[i] = ".")
  THEN [v |-> v, i |-> i]
  ELSE Octet(s, i + 1, v * 10 + DigitVal(s[i]), last)

PastDot(s, i) == IF i <= Len(s) /\ s[i] = "." THEN i + 1 ELSE i

(* Mutant: the octets assembled in the opposite order.                     *)
IpOf_reversed(a, b, c, d) ==
  (((a * 2^24) | (b * 2^16)) | (c * 2^8)) | d

IpOf(a, b, c, d) == (((d * 2^24) | (c * 2^16)) | (b * 2^8)) | a

parse_ip(s) ==
  LET a == Octet(s, 1, 0, FALSE)
      b == Octet(s, PastDot(s, a.i), 0, FALSE)
      c == Octet(s, PastDot(s, b.i), 0, FALSE)
      d == Octet(s, PastDot(s, c.i), 0, TRUE)
  IN IpOf(a.v, b.v, c.v, d.v)

(* The host an address belongs to.                                         *)
HostOf(n) == IF \E h \in DOMAIN Addr : Addr[h] = n
             THEN CHOOSE h \in DOMAIN Addr : Addr[h] = n ELSE OtherIp

(* atoi: blanks, an optional sign, then digits, in int.                    *)
RECURSIVE Digs(_, _, _)
Digs(s, i, v) == IF i <= Len(s) /\ s[i] \in Digits
                 THEN Digs(s, i + 1, v * 10 + DigitVal(s[i])) ELSE v

atoi(s) ==
  LET i == SkipBlanks(s, 1)
      neg == i <= Len(s) /\ s[i] = "-"
      j == IF i <= Len(s) /\ s[i] \in {"-", "+"} THEN i + 1 ELSE i
  IN IF neg THEN -Digs(s, j, 0) ELSE Digs(s, j, 0)

(* cmd_diskwrite's loop over argv[2..]: an argument is copied while the    *)
(* text stays under the limit, followed by a space unless it is the last.  *)
RECURSIVE WriteText_trailing_space(_, _, _)
(* Mutant: the space appended after the last argument too.                 *)
WriteText_trailing_space(argv, i, text) ==
  IF i > Len(argv) \/ Len(text) >= TextLimit THEN text
  ELSE IF Len(text) + Len(argv[i]) < TextLimit
       THEN WriteText_trailing_space(argv, i + 1, text \o argv[i] \o <<" ">>)
       ELSE WriteText_trailing_space(argv, i + 1, text)

RECURSIVE WriteText(_, _, _)
WriteText(argv, i, text) ==
  IF i > Len(argv) \/ Len(text) >= TextLimit THEN text
  ELSE IF Len(text) + Len(argv[i]) < TextLimit
       THEN WriteText(argv, i + 1,
                      text \o argv[i] \o (IF i < Len(argv) THEN <<" ">> ELSE <<>>))
       ELSE WriteText(argv, i + 1, text)

-----------------------------------------------------------------------------
(* The shell's steps.                                                      *)

(* kernel_main has brought everything up (Net's Init); shell_run prints    *)
(* its banner and enters shell_readline with pos = 0.                      *)
Init ==
  /\ N!Init
  /\ spc = "read"
  /\ typing = <<>> /\ keys = <<>> /\ buffer = <<>>
  /\ ran = NoRun /\ disk = NoDisk
  /\ lines = 0

(* The user starts typing a line while the shell waits for a key.          *)
TypeLine(l) ==
  /\ spc = "read" /\ typing = <<>> /\ lines < MaxLines
  /\ typing' = l /\ lines' = lines + 1
  /\ UNCHANGED <<netvars, spc, keys, buffer, ran, disk>>

(* The command table: the command whose name argv[0] is, if any.           *)
Lookup(argv) ==
  IF argv = <<>> THEN "none"
  ELSE IF \E c \in DOMAIN Names : Names[c] = argv[1]
       THEN CHOOSE c \in DOMAIN Names : Names[c] = argv[1] ELSE "unknown"

(* execute_command on the line shell_readline returned, read from the      *)
(* keystrokes k: the command, then shell_run's net_poll step, or for ping  *)
(* its poll loop.  Net's state changes only through net_ping.              *)
Run(cmd, argv, k) == [cmd |-> cmd, argv |-> argv, keys |-> k, pinged |-> -1, shown |-> <<>>]

(* The line cmd_ping prints before net_ping: the four octets of the        *)
(* parsed address, low byte first, each passed to a %d.                    *)
PingFormat == <<"P", "i", "n", "g", "i", "n", "g", " ", "%", "d", ".", "%", "d", ".",
                "%", "d", ".", "%", "d", ".", ".", ".", "\n">>
Pinging(ip) == P!printf(PingFormat, [i \in 1..4 |-> (ip \div 2^(8 * (i - 1))) % 256])

cmd_ping(argv, k) ==
  IF Len(argv) < 2 \/ ~net_inited
  THEN /\ ran' = Run("ping", argv, k) /\ spc' = "poll"
       /\ UNCHANGED <<netvars, disk>>
  ELSE LET ip == parse_ip(argv[2])
       IN /\ N!net_ping(HostOf(ip))
          /\ ran' = [Run("ping", argv, k) EXCEPT !.pinged = ip, !.shown = Pinging(ip)]
          /\ spc' = "ping"
          /\ UNCHANGED disk

cmd_diskread(argv, k) ==
  /\ ran' = Run("diskread", argv, k)
  /\ disk' = IF Len(argv) < 2 \/ ~AtaPresent THEN disk
             ELSE [op |-> "read", lba |-> LBA28(atoi(argv[2])), text |-> <<>>]
  /\ spc' = "poll"
  /\ UNCHANGED netvars

cmd_diskwrite(argv, k) ==
  /\ ran' = Run("diskwrite", argv, k)
  /\ disk' = IF Len(argv) < 3 \/ ~AtaPresent THEN disk
             ELSE [op |-> "write", lba |-> LBA28(atoi(argv[2])),
                   text |-> WriteText(argv, 3, <<>>)]
  /\ spc' = "poll"
  /\ UNCHANGED netvars

(* halt: cli, then hlt for ever; reboot: the 8042 pulses the reset line.   *)
cmd_stop(cmd, argv, k) ==
  /\ ran' = Run(cmd, argv, k) /\ spc' = "halted"
  /\ UNCHANGED <<netvars, disk>>

(* help, clear, echo, meminfo and netinfo only print (clear also moves    *)
(* the cursor), as does an unknown name or an empty line: nothing the      *)
(* model tracks changes before shell_run's net_poll.                       *)
cmd_print_only(cmd, argv, k) ==
  /\ ran' = Run(cmd, argv, k) /\ spc' = "poll"
  /\ UNCHANGED <<netvars, disk>>

execute_command(s, k) ==
  LET argv == parse_args(s)
      cmd == Lookup(argv)
  IN CASE cmd = "ping" -> cmd_ping(argv, k)
       [] cmd = "diskread" -> cmd_diskread(argv, k)
       [] cmd = "diskwrite" -> cmd_diskwrite(argv, k)
       [] cmd \in {"halt", "reboot"} -> cmd_stop(cmd, argv, k)
       [] OTHER -> cmd_print_only(cmd, argv, k)

(* One iteration of shell_readline on the key keyboard_getchar returned.   *)
(* Enter returns the line and Ctrl+C an empty one; a printable character   *)
(* that fills the buffer to max_len - 1 ends the loop and returns the line *)
(* too.  A returned line is executed at once.                              *)
(* Mutant: the loop bound pos < max_len - 1 dropped.                      *)
shell_readline_unbounded(c) ==
  LET k == Append(keys, c)
      b == IF c \in Erase THEN IF buffer = <<>> THEN <<>> ELSE Front(buffer)
           ELSE IF Printable(c) THEN Append(buffer, c) ELSE buffer
  IN IF c \in Enter \/ c = CtrlC
     THEN /\ execute_command(IF c = CtrlC THEN <<>> ELSE b, k)
          /\ keys' = <<>> /\ buffer' = <<>>
     ELSE /\ keys' = k /\ buffer' = b
          /\ UNCHANGED <<netvars, spc, ran, disk>>

shell_readline(c) ==
  LET k == Append(keys, c)
      b == IF c \in Erase THEN IF buffer = <<>> THEN <<>> ELSE Front(buffer)
           ELSE IF Printable(c) THEN Append(buffer, c) ELSE buffer
      done == c \in Enter \/ c = CtrlC \/ Len(b) >= MaxLen - 1
  IN IF done
     THEN /\ execute_command(IF c = CtrlC THEN <<>> ELSE b, k)
          /\ keys' = <<>> /\ buffer' = <<>>
     ELSE /\ keys' = k /\ buffer' = b
          /\ UNCHANGED <<netvars, spc, ran, disk>>

Key ==
  /\ spc = "read" /\ typing # <<>>
  /\ typing' = Tail(typing)
  /\ shell_readline(Head(typing))
  /\ UNCHANGED lines

(* A net_poll call: a frame is handled by Net, or nothing had arrived.     *)
net_poll_empty ==
  /\ out' = <<>> /\ got' = <<>> /\ reach' = 0
  /\ UNCHANGED <<net_inited, arp_cache, ping_seq, latest, steps>>

Poll == (\E f \in Frames : N!net_poll(f)) \/ net_poll_empty

(* cmd_ping's loop of 100000 net_poll calls, ended at any point.           *)
PingPoll ==
  /\ spc = "ping" /\ Poll
  /\ UNCHANGED shellvars

PingDone ==
  /\ spc = "ping" /\ spc' = "poll"
  /\ UNCHANGED <<netvars, typing, keys, buffer, ran, disk, lines>>

(* shell_run's net_poll after the command, when the network is up.         *)
ShellPoll ==
  /\ spc = "poll" /\ spc' = "read"
  /\ IF net_inited THEN Poll ELSE UNCHANGED netvars
  /\ UNCHANGED <<typing, keys, buffer, ran, disk, lines>>

Next ==
  \/ \E l \in Lines : TypeLine(l)
  \/ Key
  \/ PingPoll
  \/ PingDone
  \/ ShellPoll

Spec == Init /\ [][Next]_vars

-----------------------------------------------------------------------------
(* Properties.                                                             *)

TypeOK ==
  /\ N!TypeOK
  /\ spc \in {"read", "ping", "poll", "halted"}
  /\ buffer \in Seq(STRING) /\ Len(buffer) < MaxLen
  /\ disk \in [op : {"none", "read", "write"}, lba : 0..2^28 - 1,
               text : Seq(STRING)]
  /\ lines \in 0..MaxLines

(* References.  The tokens of s: its maximal runs of characters outside    *)
(* seps, in order.                                                         *)
Tokens(s, seps) ==
  LET starts == {j \in 1..Len(s) : s[j] \notin seps /\ (j = 1 \/ s[j - 1] \in seps)}
      stop(j) == CHOOSE k \in j..Len(s) + 1 :
                   /\ k > Len(s) \/ s[k] \in seps
                   /\ \A m \in j..k - 1 : s[m] \notin seps
      order == SetToSortSeq(starts, <)
  IN [i \in 1..Len(order) |-> SubSeq(s, order[i], stop(order[i]) - 1)]

(* The text a sequence of keystrokes leaves in a line editor, over the    *)
(* keystrokes as the user types them (a character is a one-character      *)
(* string, a control key a name): backspace and delete erase the last     *)
(* character, every other control key is ignored.                         *)
TypedText(k) ==
  FoldLeft(LAMBDA t, c : CASE c \in {"BS", "DEL"} -> IF t = <<>> THEN t ELSE Front(t)
                           [] Len(c) = 1 -> Append(t, c)
                           [] OTHER -> t,
           <<>>, k)

(* The first n elements of a sequence, all of it when it is shorter.      *)
Prefix(s, n) == SubSeq(s, 1, IF Len(s) < n THEN Len(s) ELSE n)

Numeral(w) == FoldLeft(LAMBDA v, c : v * 10 + DigitVal(c), 0, w)

(* A dotted quad of octets 0..255, and the address it denotes, the first   *)
(* octet in the low byte (the in-memory order of a network address).       *)
IsDottedQuad(w) ==
  /\ w # <<>> /\ w[1] # "." /\ w[Len(w)] # "."
  /\ \A i \in 1..Len(w) : w[i] \in Digits \/ (w[i] = "." /\ i < Len(w) /\ w[i + 1] # ".")
  /\ Len(Tokens(w, {"."})) <= 4
  /\ \A i \in DOMAIN Tokens(w, {"."}) : Numeral(Tokens(w, {"."})[i]) <= 255

Dotted(w) ==
  LET f == Tokens(w, {"."})
  IN FoldLeft(LAMBDA v, i : v + Numeral(f[i]) * 256^(i - 1), 0, [i \in DOMAIN f |-> i])

(* A command runs with the words the user typed (spec 4.7: read_line     *)
(* erases on backspace and cancels on Ctrl+C): its argv is the first      *)
(* MAX_ARGS words, separated by spaces and tabs, of the text the keys its  *)
(* shell_readline call read leave, and empty after Ctrl+C.  It rests on    *)
(* shell_readline's branches for each key and on parse_args' blank        *)
(* skipping, cutting and argument cap.  Which keys one call reads is the   *)
(* code's: a full buffer ends the call without an Enter.                   *)
CommandIsTypedLine ==
  ran # NoRun =>
    ran.argv = IF Last(ran.keys) = "ETX" THEN <<>>
               ELSE Prefix(Tokens(TypedText(ran.keys), {" ", "TAB"}), MaxArgs)

(* ping pings the address typed: for a dotted quad, parse_ip's value is    *)
(* the address it denotes, the byte order net_ping and ip_send expect.     *)
PingTargetsTyped ==
  ran.pinged # -1 /\ IsDottedQuad(ran.argv[2]) => ran.pinged = Dotted(ran.argv[2])

(* ping reports the address it pings as the user typed it: for a dotted   *)
(* quad, the line cmd_ping prints before net_ping is "Pinging ", the       *)
(* typed octets in order (0 for those left out), each without leading     *)
(* zeros, and "...".  It rests on parse_ip's shifts and ors, the >> and    *)
(* & 0xFF that take the octets apart, and print_num's digit loop.          *)
PingEchoesTarget ==
  ran.pinged # -1 /\ IsDottedQuad(ran.argv[2]) =>
    LET typed == Tokens(ran.argv[2], {"."})
        q == SubSeq(ran.shown, 9, Len(ran.shown) - 4)
        shown == Tokens(q, {"."})
    IN /\ SubSeq(ran.shown, 1, 8) = <<"P", "i", "n", "g", "i", "n", "g", " ">>
       /\ SubSeq(ran.shown, Len(ran.shown) - 3, Len(ran.shown)) = <<".", ".", ".", "\n">>
       /\ IsDottedQuad(q) /\ Len(shown) = 4
       /\ \A i \in 1..4 :
            /\ Numeral(shown[i]) = IF i <= Len(typed) THEN Numeral(typed[i]) ELSE 0
            /\ shown[i][1] = "0" => shown[i] = <<"0">>

(* diskwrite writes the words after the LBA, separated by single spaces,   *)
(* whenever they fit in the 500 bytes it reserves.                         *)
DiskWriteText ==
  LET words == SubSeq(ran.argv, 3, Len(ran.argv))
      joined == FoldLeft(LAMBDA t, w : IF t = <<>> THEN w ELSE t \o <<" ">> \o w,
                         <<>>, words)
  IN ran.cmd = "diskwrite" /\ Len(ran.argv) >= 3 /\ AtaPresent
     /\ Len(joined) < TextLimit
       => disk.text = joined

(* The ARP cache properties of Net, under the polls the shell makes.       *)
ArpCacheWellFormed == N!ArpCacheWellFormed

ArpCacheFresh == N!ArpCacheFresh

====
