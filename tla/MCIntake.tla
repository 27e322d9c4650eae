------------------------------ MODULE MCIntake ------------------------------
(* Small instances of Intake for TLC. *)
EXTENDS Intake, TLC

\* Addresses of two bits, and of two bytes of two bits.
W(b1, b0) == [i \in 0..1 |-> IF i = 1 THEN b1 ELSE b0]
W6(hi, lo) == [i \in 0..1 |-> IF i = 0 THEN hi ELSE lo]
Net4(w, prefix) == [af |-> "inet", ipv4 |-> w, prefix |-> prefix]
Net6(w, prefix) == [af |-> "inet6", ipv6 |-> w, prefix |-> prefix]

h4 == [af |-> "inet", ipv4 |-> W(1, 0)]
h6 == [af |-> "inet6", ipv6 |-> W6(W(1, 1), W(1, 0))]
n4 == [af |-> "inet", ipv4 |-> W(0, 0)]
MCHosts == {h4, n4, h6}

\* h4 is in both files, h6 in the first; n4 in the second if a shift by the
\* width of the word shifts everything out.
MCFiles == {<<Net4(W(1, 1), 1), Net6(W6(W(1, 1), W(1, 1)), 3)>>,
            <<Net4(W(0, 1), 0), Net4(W(0, 0), 3), Net4(W(1, 0), NoPrefix)>>}

MCHostOf == [b \in Bytes(1) |-> IF b = <<0>> THEN h4 ELSE h6]

Cmd(code, ip) ==
    [command |-> <<code>>, origin |-> <<0>>, ipaddr |-> <<ip>>,
     firstseen |-> <<1, 2>>, lastseen |-> <<2, 3>>,
     purge_after |-> <<0, 1>>, time_interval |-> <<3, 0>>,
     occurrences |-> <<3>>, action_threshold |-> <<2>>,
     remove |-> <<0>>, processed |-> <<1>>]
MCCommands == {Cmd(0, 0), Cmd(1, 1)}
MCByte == 0..3

ReaderSymmetry == Permutations(Readers)
=============================================================================
