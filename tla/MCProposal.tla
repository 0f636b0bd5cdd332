----------------------------- MODULE MCProposal -----------------------------
(* Three node masters, two of them with one endorsor; the first block is     *)
(* scheduled by the first scheduler, the others by the second.               *)
EXTENDS Proposal
MCEndorsor == [a |-> "x", b |-> "y", c |-> "x"]
MCGenesis == <<"a", "b">>
MCTargetGasLimit == [a |-> 1, b |-> 20, c |-> 0]
Index(m) == CASE m = "a" -> 0 [] m = "b" -> 1 [] m = "c" -> 2
MCDprp(num, t) == num + t \div 4 + 1
MCHash(seed, num, m) == ((Index(m) + 1) * (seed + num + 2)) % 7
=============================================================================
