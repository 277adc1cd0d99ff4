------------------------------ MODULE MCMemory ------------------------------
(***************************************************************************)
(* Either the bus, with the addresses of one window: an edge of a region,  *)
(* neighbouring registers, or a page without storage.  Or the flash of a   *)
(* cartridge, of two banks with four addresses: one of sector 0, and three *)
(* of which the unlock stores use two and two share a sector.  Stores are  *)
(* the commands, a bank number beyond the second, a value that is no       *)
(* command, and data that look like an unlock.  Or the CPU's transfers,    *)
(* with words of four bytes of two bits: one single transfer or swap from  *)
(* every choice of registers, or any number of blocks with a stack of two  *)
(* frames.                                                                 *)
(***************************************************************************)
EXTENDS MemoryBus, Flash, Transfers

VARIABLE chosen

U1 == 21845
U2 == 10922
ChipAddresses == {0, 20480, U1, U2}
ChipData      == {<<0, 0>>, <<U1, 170>>}
ChipStores    == {<<U1, 170>>, <<U2, 85>>, <<20480, 48>>, <<U2, 48>>, <<U1, 0>>}
                 \cup {0} \X {1, 2, 48}
                 \cup {U1} \X {144, 240, 128, 16, 48, 160, 176}
\* The program stores only as long as no more than this of a file exists.
MaxSaved == 1

\* At 4 and 8, what makes signs of halfwords at odd addresses differ.
SomeContents == [a \in 0 .. 15 |->
                   <<0, 1, 2, 3, 1, 2, 1, 0, 0, 3, 1, 0, 3, 0, 1, 2>>[a + 1]]

At0(page) == page * 2 ^ 24

MCWindows ==
    {{At0(3) + 32766, At0(3) + 32768},
     {At0(6), At0(6) + 98302, At0(6) + 98304, At0(6) + 131072},
     {At0(4) + 86, At0(4) + 87},
     {At0(4) + 64, At0(4) + 94},
     {At0(4) + 174, At0(4) + 768, At0(4) + 2302},
     {At0(4) + 302, At0(4) + 304},
     {At0(4) + 95, At0(4) + 96},
     {At0(4) + 769, At0(4) + 770},
     {At0(4) + 516, At0(4) + 517},
     {At0(0) + 16380, At0(0) + 16384, At0(1)},
     {At0(8), At0(10), At0(9) + 2 ^ 24 - 2},
     {At0(14), At0(14) + 65536, At0(15)}}

MCWords == {<<20, 37, 51, 68>>}
\* The keys change only where they can be seen.
MCKeys == {{}, {0, 9}}

\* The parts that are not checked start in one state of theirs.
MCInit == /\ chosen \in {"bus", "flash", "single", "block"}
          /\ Init
          /\ chosen # "bus" => window = {At0(4) + 86, At0(4) + 87}
          /\ InitFlash
          /\ InitTransfers
          /\ chosen # "single" => reg[1] = 5 /\ reg[14] = 12
          /\ chosen \in {"bus", "flash"}
               => reg[13] = 12 /\ growth = [pre |-> TRUE, up |-> FALSE]

MCNext == \/ /\ chosen = "bus"
             /\ Next
             /\ KEYINPUT \notin window => UNCHANGED keys
             /\ UNCHANGED <<chosen, flashVars, transferVars>>
          \/ /\ chosen = "flash"
             /\ NextFlash
             /\ phase = "running" /\ phase' = "running" => Len(file) <= MaxSaved
             /\ UNCHANGED <<chosen, vars, transferVars>>
          \/ /\ chosen = "single"
             /\ Single \/ Swap
             /\ chosen' = "done"
             /\ UNCHANGED <<vars, flashVars>>
          \/ /\ chosen = "block"
             /\ Push \/ Pop \/ Peek \/ Clobber
             /\ UNCHANGED <<chosen, vars, flashVars>>

MCSpec == MCInit /\ [][MCNext]_<<vars, flashVars, transferVars, chosen>>
=============================================================================
