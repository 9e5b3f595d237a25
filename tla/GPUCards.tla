------------------------------ MODULE GPUCards ------------------------------
(***************************************************************************)
(* One reading of all cards: readGPUs over /sys/class/drm, with the rows   *)
(* of nvidia-smi applied to the cards they name.                           *)
(*                                                                         *)
(* A card is a record of its name, driver, PCI identifiers, address and    *)
(* the files that can be read; what may be missing is a set.  An address   *)
(* is a domain, nothing where the text has none, and the rest; an address  *)
(* that is no address has no rest.  A row of nvidia-smi has columns which  *)
(* may be unusable, and is short or complete.                              *)
(***************************************************************************)
EXTENDS Integers, Sequences, FiniteSets

CONSTANT Megabyte     \* bound: 1 << 20, in the unit of the capacities

ASSUME MegabyteConstant == Megabyte \in Nat \ {0}

(* busyFraction, validCelsius, vramCapacity: what is not credible is       *)
(* dropped.                                                                *)
Busy(percent) == {p \in percent : p >= 0 /\ p <= 100}
Temperature(celsius) == {c \in celsius : c > 0 /\ c < 150}
VRAM(pairs) == {p \in pairs : p.total # 0 /\ p.used <= p.total}

Nvidia == 4318      \* 0x10de

Firmware == {"simpledrm", "efidrm", "vesadrm"}

(* readGPUs, one entry of the directory.  A card without identification is *)
(* an issue and no GPU.                                                    *)
Identified(card) == card.vendor # {} /\ card.device # {}
Listed(cards) == {i \in DOMAIN cards : cards[i].driver \notin Firmware /\ Identified(cards[i])}
GPU(card) ==
  [card |-> card.name, vendor |-> card.vendor, device |-> card.device, bdf |-> card.bdf, usage |-> Busy(card.busy),
   temp |-> Temperature(card.temp), vram |-> VRAM(card.vram), title |-> card.title]

(* Slip: only what follows the domain is compared.                         *)
MatchRest(a, b) == a.rest # {} /\ a.rest = b.rest

(* splitBDF, matchBDF: a missing domain is domain 0.                       *)
Address(bdf) == {[domain |-> IF bdf.domain = {} THEN 0 ELSE CHOOSE d \in bdf.domain : TRUE,
                  rest |-> r] : r \in bdf.rest}
MatchBDF(a, b) == Address(a) # {} /\ Address(a) = Address(b)

(* parseNvidiaCSV.  Memory and name come of complete rows only.            *)
NvidiaRow(row) ==
  [bdf |-> row.bdf, usage |-> Busy(row.util), temp |-> Temperature(row.temp),
   vram |-> IF row.complete
            THEN {[used |-> m.used * Megabyte, total |-> m.total * Megabyte] : m \in row.memory}
            ELSE {},
   title |-> IF row.complete THEN row.title ELSE {}]

(* applyNvidiaCSV: a row fills in what its card lacks.                     *)
OrElse(known, other) == IF known # {} THEN known ELSE other

Fill(gpu, row) ==
  [gpu EXCEPT !.usage = OrElse(@, row.usage), !.temp = OrElse(@, row.temp),
              !.vram = OrElse(@, VRAM(row.vram)), !.title = OrElse(@, row.title)]

ApplyRows(gpu, rows) ==
  LET filled[i \in 0..Len(rows)] ==
        IF i = 0 THEN gpu
        ELSE IF MatchBDF(gpu.bdf, rows[i].bdf) THEN Fill(filled[i - 1], NvidiaRow(rows[i]))
        ELSE filled[i - 1]
  IN filled[Len(rows)]

HasNvidia(cards) == \E i \in Listed(cards) : cards[i].vendor = {Nvidia}

(* The order of the snapshot: PCI identifiers, then the name of the card.  *)
Number(optional) == CHOOSE n \in optional : TRUE
Before(g, h) ==
  LET v == Number(g.vendor) w == Number(h.vendor) d == Number(g.device) e == Number(h.device)
  IN \/ v < w
     \/ v = w /\ d < e
     \/ v = w /\ d = e /\ g.card < h.card

Rank(gpus, i) == 1 + Cardinality({k \in DOMAIN gpus : Before(gpus[k], gpus[i])})
InOrder(gpus) ==
  [n \in 1..Cardinality(DOMAIN gpus) |-> gpus[CHOOSE i \in DOMAIN gpus : Rank(gpus, i) = n]]

(* readGPUs.  Without a card of NVIDIA, or when nvidia-smi fails, there    *)
(* are no rows.                                                            *)
NvidiaRows(cards, smi) == IF HasNvidia(cards) /\ smi # {} THEN CHOOSE rows \in smi : TRUE ELSE <<>>
ReadGPUs(cards, smi) ==
  InOrder([i \in Listed(cards) |-> ApplyRows(GPU(cards[i]), NvidiaRows(cards, smi))])

---------------------------------------------------------------------------
(* Property of one reading.                                                *)

(* The snapshot has every card that is identified, once.  Every reading of *)
(* a GPU is of its own files where these give a credible one, and          *)
(* otherwise of the first row with its address that does: never of another *)
(* card, in whatever width the domains are written, and never missing      *)
(* while one of the two has it.                                            *)
ReadingsAreOfTheCard(cards, smi, gpus) ==
  LET found == Listed(cards)
      rows == NvidiaRows(cards, smi)
      reading(k, field) == IF field = "vram" THEN VRAM(NvidiaRow(rows[k]).vram)
                           ELSE NvidiaRow(rows[k])[field]
  IN /\ Len(gpus) = Cardinality(found)
     /\ \A i \in found : \E j \in DOMAIN gpus :
          LET own == GPU(cards[i])
              having(field) == {k \in DOMAIN rows : /\ reading(k, field) # {}
                                                    /\ Address(own.bdf) # {}
                                                    /\ Address(rows[k].bdf) = Address(own.bdf)}
              first(field) == CHOOSE k \in having(field) : \A l \in having(field) : k <= l
          IN /\ gpus[j].card = cards[i].name
             /\ \A field \in {"usage", "temp", "vram", "title"} :
                  gpus[j][field] = IF own[field] # {} THEN own[field]
                                   ELSE IF having(field) = {} THEN {}
                                   ELSE reading(first(field), field)
=============================================================================
