-------------------------- MODULE MCLinuxMitigator --------------------------
(* An instance of LinuxMitigator with the modes of example.toml: no        *)
(* interference, and a budget between the least and the most time; and,    *)
(* as if no option were given, no budget and no fuel amount.               *)
EXTENDS LinuxMitigator

MCFuels == <<3, None>>

MCWctpfs == <<4, 0, None>>
=============================================================================
