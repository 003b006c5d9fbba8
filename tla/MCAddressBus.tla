---------------------------- MODULE MCAddressBus ----------------------------
(***************************************************************************)
(* The programs the buses are checked with: one that polls the joypad, two *)
(* that switch banks, and two that store through the PPU.                  *)
(***************************************************************************)
EXTENDS AddressBus, TLC

MCRom(mapper, prg, chr, vertical) ==
  [mapper |-> mapper, prg |-> prg, chr |-> chr, vertical |-> vertical]

MCNothing ==
  [rom |-> MCRom(0, 1, 1, TRUE), reads |-> {}, writes |-> {}, stores |-> {},
   values |-> [r \in Register |-> {0}]]

MCPolls == [MCNothing EXCEPT !.reads = {16406}, !.writes = {16406} \X {0, 1}]

\* Mode 3, 1 and 2 of the program banks, with pattern banks of both sizes, the last
\* ones among them: with the cartridge below, 5 in mode 3, 4 in mode 1, 3 and 7.
MCValues ==
  [control |-> {12, 20, 24}, chr0 |-> {3, 7}, chr1 |-> {1, 7}, prg |-> {2, 20, 21}]

MCSwitches ==
  [MCNothing EXCEPT
     !.rom = MCRom(1, 6, 4, TRUE),
     !.writes = {32 * K, 40 * K, 48 * K, 56 * K} \X {0, 1, 128},
     !.values = MCValues]

MCRam ==
  [MCNothing EXCEPT
     !.rom = MCRom(1, 2, 0, FALSE),
     !.reads = {24 * K},
     !.writes = {32 * K, 48 * K} \X {0, 1} \cup {<<24 * K, 5>>, <<40 * K, 0>>},
     !.stores = {4 * K, 10 * K + 7} \X {1, 2},
     !.values = [MCValues EXCEPT !["control"] = {0, 16}, !["chr1"] = {0},
                            !["prg"] = {0}]]

MCCells == {4 * K, 16 * K - 256, 16 * K - 224}
             \cup {n * K + 7 : n \in 8 .. 14} \cup {8 * K, 12 * K}

MCStores(vertical) ==
  [MCNothing EXCEPT
     !.rom = MCRom(0, 2, 1, vertical),
     !.writes = {<<24 * K, 1>>, <<32 * K, 1>>, <<16 * K + 24, 1>>},
     !.stores = (MCCells \ {10 * K + 7, 12 * K}) \X {1}]

MCPrograms ==
  [polls |-> MCPolls, switches |-> MCSwitches, ram |-> MCRam,
   vertical |-> MCStores(TRUE), horizontal |-> MCStores(FALSE)]

MCRoms == {MCPrograms[p].rom : p \in DOMAIN MCPrograms}

MCButtonStates == {{}, {"A", "Start", "Right"}, {"B", "Start", "Down"}}
=============================================================================
