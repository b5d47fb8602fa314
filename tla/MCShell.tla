------------------------------- MODULE MCShell ------------------------------
(* Model-checking instance of Shell.  The commands are one-letter names,   *)
(* H1 and H2 have the addresses "2" and "1.2" parse to, and the lines      *)
(* cover editing, Ctrl+C, a double blank, each command with and without    *)
(* its arguments, an address past the registry, diskwrite with one word,   *)
(* with words past MAX_ARGS and with a last word that does not fit, and a  *)
(* line longer than the buffer, whose tail becomes the next command.       *)
EXTENDS Shell

CONSTANTS H1, H2, H3, M1, M2

LOCAL F == INSTANCE NetFrames

MCFrames ==
  F!ArpFrames(OurIp, OurMac, Broadcast, H1, H2, H3, M1, M2)
  \cup F!IpFrames(OurIp, OurMac, Broadcast, H1, H2, M1)

MCHosts == {H1, H2, H3}
MCMacs == {M1, M2}

(* 10.0.2.15, 2.0.0.0 and 1.2.0.0 as parse_ip builds them.                 *)
MCAddr == [h \in {OurIp, H1, H2} |->
             IF h = OurIp THEN 10 + 2 * 2^16 + 15 * 2^24
             ELSE IF h = H1 THEN 2 ELSE 1 + 2 * 2^8]

MCNames == [ping |-> <<"p">>, diskread |-> <<"r">>, diskwrite |-> <<"w">>,
            echo |-> <<"e">>, halt |-> <<"h">>, reboot |-> <<"b">>]

MCLines ==
  { <<"p", " ", "2", "ENTER">>,
    <<"p", " ", "1", ".", "2", "CR">>,
    <<"p", " ", "1", "9", "ENTER">>,                       \* no such host
    <<"x", "BS", "p", " ", " ", " ", "1", "TAB", "ENTER">>,     \* edited, blanks
    <<"p", " ", "2", "ETX">>,                              \* cancelled
    <<"p", "ENTER">>,                                      \* no argument
    <<"w", " ", "1", " ", "a", "ENTER">>,
    <<"w", " ", "1", " ", "a", " ", "b", " ", "c", "ENTER">>,   \* past MaxArgs
    <<"w", " ", "1", " ", "a", "b", "c", " ", "d", "e", "ENTER">>, \* over the text
    <<"r", " ", "-", "1", "DEL", "3", "ENTER">>,
    <<"e", " ", "a", "b", "c", "d", "e", "f", "g", "h", "i", "p", " ", "2",
      "ENTER">>,                                           \* split at MaxLen
    <<"h", "ENTER">>,
    <<"b", "ENTER">> }

(* The byte strings checksum is run on: up to 6 bytes of 0, 1 and 255,     *)
(* enough for a sum of three words that needs two folds (0xFFFF + 0xFFFF  *)
(* + 1) and for odd lengths.                                               *)
ChecksumInputs == UNION {[1..n -> {0, 1, 255}] : n \in 0..6}

(* The table of checksum against RFC 1071 over ChecksumInputs (constant, *)
(* so TLC computes it once).                                               *)
ChecksumTable ==
  \A data \in ChecksumInputs : N!checksum(data) = N!Swap16(N!InternetChecksum(data))

(* icmp.c's checksum, as stored by the uint16_t writes of ip_send,         *)
(* icmp_ping and icmp_reply, puts the Internet checksum's bytes on the     *)
(* wire: summed as little-endian words, with the end-around carries folded *)
(* until none is left, it equals RFC 1071's network-order checksum with    *)
(* its bytes swapped, for every short byte string, odd lengths included,   *)
(* and for the echo request icmp_ping builds with the current ping_seq.    *)
ChecksumIsInternetChecksum ==
  /\ ChecksumTable
  /\ LET req == N!EchoRequest(ping_seq)
     IN N!checksum(req) = N!Swap16(N!InternetChecksum(req))
====
