------------------------------ MODULE PpuPorts ------------------------------
(***************************************************************************)
(* What a program may rely on when it writes to the ports of the PPU: a    *)
(* write acts exactly once, at once, and in the order of the writes.       *)
(***************************************************************************)
EXTENDS Bytes

CONSTANT Accesses    \* the accesses a program makes: [port, value]

VARIABLES
  second,        \* the next write to PPUADDR or PPUSCROLL is the second of its pair
  address,       \* where PPUDATA stores
  down,          \* PPUDATA moves the address a line down, not one to the right
  oam_address,   \* where OAMDATA stores
  scroll,        \* the scroll position of the next frame
  store          \* the latest store to a memory of the PPU

vars == <<second, address, down, oam_address, scroll, store>>

Init ==
  /\ second = FALSE
  /\ address = 0
  /\ down \in BOOLEAN
  /\ oam_address = 0
  /\ scroll \in Byte \X Byte
  /\ store = <<>>

Scroll(v) ==
  /\ scroll' = [scroll EXCEPT ![IF second THEN 2 ELSE 1] = v]
  /\ second' = ~second
  /\ UNCHANGED <<address, down, oam_address, store>>

SetAddress(v) ==
  /\ address' = IF second THEN 256 * High(address) + Or(Low(address), v) ELSE 256 * v
  /\ second' = ~second
  /\ UNCHANGED <<down, oam_address, scroll, store>>

StoreVideo(v) ==
  /\ store' = <<"video", address, v>>
  /\ address' = Word16(address + IF down THEN 32 ELSE 1)
  /\ UNCHANGED <<second, down, oam_address, scroll>>

SetOamAddress(v) ==
  /\ oam_address' = v
  /\ UNCHANGED <<second, address, down, scroll, store>>

StoreOam(v) ==
  /\ store' = <<"oam", oam_address, v>>
  /\ oam_address' = oam_address + 1
  /\ UNCHANGED <<second, address, down, scroll>>

CopyPage(v) ==
  /\ store' = <<"page", v>>
  /\ UNCHANGED <<second, address, down, oam_address, scroll>>

Control(v) ==
  /\ down' = v.down
  /\ UNCHANGED <<second, address, oam_address, scroll, store>>

ReadStatus ==
  /\ second' = FALSE
  /\ UNCHANGED <<address, down, oam_address, scroll, store>>

Next ==
  \/ ReadStatus
  \/ \E a \in Accesses :
       \/ a.port = "PPUSCROLL" /\ Scroll(a.value)
       \/ a.port = "PPUADDR"   /\ SetAddress(a.value)
       \/ a.port = "PPUDATA"   /\ StoreVideo(a.value)
       \/ a.port = "OAMADDR"   /\ SetOamAddress(a.value)
       \/ a.port = "OAMDATA"   /\ StoreOam(a.value)
       \/ a.port = "OAMDMA"    /\ CopyPage(a.value)
       \/ a.port = "PPUCTRL"   /\ Control(a.value)

Spec == Init /\ [][Next]_vars
=============================================================================
