----------------------------- MODULE MCReaders -----------------------------
(***************************************************************************)
(* The readers side by side: a behaviour is one reading of one reader from *)
(* one of the inputs below, or a behaviour of the name cache, or of the    *)
(* fdinfo clients during two walks.                                        *)
(***************************************************************************)
EXTENDS Counters, Capacities, Batteries, ThermalSources, GPUCards, PCINameCache, FDInfoUsage

CONSTANTS render, video     \* engine classes

(* The counts of the inputs below are words.                               *)
ASSUME InputsAreWords == MaxWord >= 5

MCInstances == [k \in Classes |-> IF k = render THEN 1 ELSE 2]

VARIABLES reader, input, done, result

readerVars == <<reader, input, done, result>>
vars == <<readerVars, cacheSystemVars, usageVars>>

---------------------------------------------------------------------------
(* Inputs.                                                                 *)

Edges == {0, 1, 2, MaxWord - 1, MaxWord}

CPUInputs ==
  [previous: [{"user", "idle", "iowait"} -> Edges], current: [{"user", "idle", "iowait"} -> Edges]]

FreeBSDInputs ==
  {i \in CPUInputs : /\ i.previous["iowait"] = 0 /\ i.current["iowait"] = 0
                     /\ FreeBSDTicks(i.previous) /\ FreeBSDTicks(i.current)}

BlockInputs ==
  [previous: [sectors: Word, busy: Edges], current: [sectors: Word, busy: Edges], elapsed: {0, 1, 3}]

NetworkInputs ==
  [previous: [{"bytes", "packets"} -> Edges], current: [{"bytes", "packets"} -> Edges], elapsed: {0, 1}]

Stats == [blocks: Word, bfree: Word, bavail: Edges, bsize: 0..2, frsize: 0..2]
Mounts == [type: {"ext4"}, stat: {{s} : s \in Stats}]
OddMounts == [type: {"ext4", "autofs"},
              stat: {{}} \cup {{s} : s \in [blocks: {3, 5}, bfree: {1, 4}, bavail: {1}, bsize: {2}, frsize: {0}]}]
MountInputs == {<<m>> : m \in Mounts} \cup {<<m, n>> : m, n \in OddMounts}

SwapRows == [blocks: 0..4, used: 0..3, avail: 0..3]
SwapInputs == {<<>>} \cup {<<r>> : r \in SwapRows} \cup {<<r, q>> : r, q \in SwapRows}

(* Directories of one file, or of none, and those with the files of both.  *)
Optional(name, values) == {<<>>} \cup {[f \in {name} |-> v] : v \in values}
Merge(d, e) == [f \in DOMAIN d \cup DOMAIN e |-> IF f \in DOMAIN d THEN d[f] ELSE e[f]]
AllOf(s, t) == {Merge(d, e) : d \in s, e \in t}

(* One pack with every combination of files.                               *)
Packs ==
  {Merge(p, [type |-> "Battery", status |-> "discharging"]) : p \in
    AllOf(AllOf(AllOf(AllOf(Optional("energy_now", {1}), Optional("energy_full", {0, 2})),
                      AllOf(Optional("energy_full_design", {0, 4}), Optional("charge_now", {1}))),
                AllOf(AllOf(Optional("charge_full", {0, 2}), Optional("charge_full_design", {0, 3})),
                      AllOf(Optional("voltage_now", {0, 1}), Optional("capacity", {50})))),
          Optional("current_now", {-2}))}

(* Two supplies of all kinds.                                              *)
Sources ==
  { [energy_now |-> 1, energy_full |-> 2],
    [energy_now |-> 3, energy_full |-> 2],
    [energy_now |-> 3, capacity |-> 10],
    [charge_now |-> 1, charge_full |-> 4, voltage_now |-> 1],
    [charge_now |-> 3, charge_full |-> 3],
    [capacity |-> 50],
    <<>> }
SystemSupplies ==
  {Merge(s, Merge(w, [type |-> "Battery", status |-> t])) :
     s \in Sources, w \in Optional("power_now", {-1, 4}),
     t \in {"charging", "discharging", "full", "unknown"}}
OtherSupplies ==
  { [status |-> "full"],
    [type |-> "Mains", status |-> "unknown"],
    [type |-> "Battery", scope |-> "Device", status |-> "discharging", capacity |-> 5],
    [type |-> "Battery", present |-> 0, status |-> "charging", capacity |-> 5] }
BatteryInputs ==
  {<<p>> : p \in Packs} \cup {<<p, q>> : p, q \in SystemSupplies \cup OtherSupplies}

Sensors ==
  [driver: {"k10temp", "coretemp", "nvme"}, label: {"Tctl", "Package", "Tdie", "none"},
   index: {1, 2}, celsius: {{}, {0}, {40}, {90}, {200}}]
    \cup [driver: {Unnamed}, label: {"none"}, index: {1}, celsius: {{}}]
FewSensors == {s \in Sensors : s.driver \in {"k10temp", "coretemp"} /\ s.index = 2 /\ s.celsius \in {{0}, {40}, {90}}
                               /\ s.label \in {"Tctl", "Package"}}
Zones == [type: {"x86_pkg_temp", "acpitz", "other"}, celsius: {{}, {50}, {60}}]
           \cup [type: {Unnamed}, celsius: {{}}]
ZoneSeqs == {<<>>} \cup {<<z>> : z \in Zones} \cup {<<z, y>> : z, y \in Zones}
ThermalInputs ==
  [sensors: {<<s, t>> : s, t \in Sensors} \cup {<<s, t, u>> : s, t, u \in FewSensors}, zones: {<<>>}]
    \cup [sensors: {<<>>} \cup {<<s>> : s \in Sensors}, zones: ZoneSeqs]

Addresses == [domain: {{}, {0}, {1}}, rest: {{"08"}}] \cup [domain: {{}}, rest: {{}}]
Cards ==
  [driver: {"nvidia"}, vendor: {{Nvidia}}, device: {{2}}, bdf: Addresses,
   busy: {{}, {120}}, temp: {{}, {60}}, vram: {{}, {[used |-> 9, total |-> 1]}}, title: {{}}]
QuietCards == {c \in Cards : c.busy = {} /\ c.temp = {}}
OtherCards ==
  { [driver |-> "amdgpu", vendor |-> {4098}, device |-> {3},
     bdf |-> [domain |-> {0}, rest |-> {"08"}], busy |-> {30}, temp |-> {50},
     vram |-> {[used |-> 1, total |-> 8]}, title |-> {"Navi"}],
    [driver |-> "simpledrm", vendor |-> {}, device |-> {},
     bdf |-> [domain |-> {}, rest |-> {}], busy |-> {}, temp |-> {}, vram |-> {}, title |-> {}],
    [driver |-> "nvidia", vendor |-> {Nvidia}, device |-> {},
     bdf |-> [domain |-> {0}, rest |-> {"08"}], busy |-> {}, temp |-> {}, vram |-> {}, title |-> {}] }
Rows ==
  [bdf: Addresses, util: {{}, {70}}, temp: {{0}, {80}}, complete: BOOLEAN,
   memory: {{[used |-> 1, total |-> 2]}}, title: {{"GeForce"}}]
    \cup [bdf: {[domain |-> {0}, rest |-> {"08"}]}, util: {{120}}, temp: {{}}, complete: {TRUE},
          memory: {{}, {[used |-> 3, total |-> 2]}}, title: {{}}]
Named(cards) == [i \in DOMAIN cards |-> Merge([name |-> i], cards[i])]
Pairs == {Named(<<c, d>>) : c, d \in OtherCards \cup QuietCards}
OneCardInputs ==
  [cards: {Named(<<c>>) : c \in Cards \cup OtherCards}, smi: {{}} \cup {{<<r, q>>} : r, q \in Rows}]
TwoCardInputs == [cards: Pairs, smi: {{}} \cup {{<<r>>} : r \in Rows}]
GPUInputs == OneCardInputs \cup TwoCardInputs

PureReaders ==
  {"cpu", "freebsd", "block", "network", "mounts", "meminfo", "pages", "swap", "vram",
   "battery", "thermal", "gpu"}

Inputs(r) ==
  CASE r = "cpu" -> CPUInputs [] r = "freebsd" -> FreeBSDInputs
    [] r = "block" -> BlockInputs [] r = "network" -> NetworkInputs
    [] r = "mounts" -> MountInputs [] r = "swap" -> SwapInputs
    [] r = "meminfo" -> [total: Word, left: Word] [] r = "vram" -> [total: Word, used: Word]
    [] r = "pages" -> [pages: Word, size: 0..3, free: Word, inactive: Word]
    [] r = "battery" -> BatteryInputs [] r = "thermal" -> ThermalInputs [] r = "gpu" -> GPUInputs

---------------------------------------------------------------------------
(* One reading.                                                            *)

Reading(r, value) ==
  /\ reader = r /\ ~done
  /\ done' = TRUE /\ result' = value
  /\ UNCHANGED <<reader, input, cacheSystemVars, usageVars>>

ReadCPU == reader = "cpu" /\ Reading("cpu", CPUUsage(input.previous, input.current))
ReadFreeBSDCPU ==
  reader = "freebsd" /\ Reading("freebsd", FreeBSDUsage(input.previous, input.current))
ReadBlock ==
  reader = "block" /\ Reading("block", RowRates(input.previous, input.current, input.elapsed))
ReadNetwork ==
  reader = "network" /\ Reading("network", NetworkRates(input.previous, input.current, input.elapsed))
ReadMounts ==
  reader = "mounts" /\ Reading("mounts", [filesystems |-> Filesystems(input), issues |-> FilesystemIssues(input)])
ReadMeminfo == reader = "meminfo" /\ Reading("meminfo", MeminfoPair(input.total, input.left))
ReadPages ==
  reader = "pages" /\ Reading("pages", FreeBSDMemory(input.pages, input.size, input.free, input.inactive))
ReadSwap == reader = "swap" /\ Reading("swap", FreeBSDSwap(input))
ReadVRAM == reader = "vram" /\ Reading("vram", VRAMCapacity(input.used, input.total))
ReadSupplies == reader = "battery" /\ Reading("battery", ReadBattery(input))
ReadSensors == reader = "thermal" /\ Reading("thermal", ReadThermal(input.sensors, input.zones))
ReadCards == reader = "gpu" /\ Reading("gpu", ReadGPUs(input.cards, input.smi))

CacheOff ==
  /\ file = Empty /\ written = 0 /\ stamps = Empty /\ names = Empty
  /\ newStamps = Empty /\ newNames = Empty /\ step = "idle" /\ todo = {} /\ failed = {}
UsageOff ==
  /\ driver = "none" /\ now = 0 /\ walk = 0 /\ unread = {} /\ changes = 0
  /\ work = <<>> /\ shown = <<>> /\ readable = {}
  /\ readings = <<>> /\ readAt = <<>> /\ began = <<>>
  /\ workBegun = <<>> /\ workBetween = <<>> /\ steady = {}

Init ==
  /\ done = FALSE /\ result = {}
  /\ \/ reader \in PureReaders /\ input \in Inputs(reader) /\ CacheOff /\ UsageOff
     \/ reader = "names" /\ input = <<>> /\ CacheInit /\ UsageOff
     \/ reader = "fdinfo" /\ input = <<>> /\ CacheOff /\ UsageInit

Next ==
  \/ ReadCPU \/ ReadFreeBSDCPU \/ ReadBlock \/ ReadNetwork
  \/ ReadMounts \/ ReadMeminfo \/ ReadPages \/ ReadSwap \/ ReadVRAM
  \/ ReadSupplies \/ ReadSensors \/ ReadCards
  \/ reader = "names" /\ CacheNext /\ UNCHANGED <<readerVars, usageVars>>
  \/ reader = "fdinfo" /\ UsageNext /\ UNCHANGED <<readerVars, cacheSystemVars>>

Spec == Init /\ [][Next]_vars

---------------------------------------------------------------------------
(* Properties.                                                             *)

(* Usages and rates of two readings are exact, at the edges of the words   *)
(* and with counters that go back (Counters).                              *)
RatesAreExact ==
  done =>
    /\ reader \in {"cpu", "freebsd"} => UsageIsExact(input.previous, input.current, result)
    /\ reader = "network" =>
         NetworkRatesAreExact(input.previous, input.current, input.elapsed, result)
    /\ reader = "block" =>
         BlockRatesAreExact(input.previous, input.current, input.elapsed, result)

(* Capacities are exact or refused; every mount but the automount triggers *)
(* is a filesystem or an issue (Capacities).                               *)
CapacitiesAreExact ==
  done =>
    /\ reader = "mounts" =>
         /\ \A i \in DOMAIN input : \A s \in input[i].stat : StatfsIsExact(s)
         /\ Cardinality(result.filesystems) + Cardinality(result.issues)
              = Cardinality({i \in DOMAIN input : input[i].type # "autofs"})
    /\ reader = "meminfo" => MeminfoIsExact(input.total, input.left)
    /\ reader = "pages" =>
         FreeBSDMemoryIsExact(input.pages, input.size, input.free, input.inactive)
    /\ reader = "swap" => FreeBSDSwapIsExact(input)
    /\ reader = "vram" => VRAMIsExact(input.used, input.total)

(* aggregateSupplies: see Batteries.                                       *)
BatteryChargeIsBetween == done /\ reader = "battery" => ChargeIsBetweenThePacks(result)
BatteryTimeIsBetween == done /\ reader = "battery" => TimeIsBetweenThePacks(result)
BatteryHealthIsOfOneFamily ==
  done /\ reader = "battery" => \A i \in DOMAIN input : HealthIsOfOneFamily(input[i])

(* readThermal: see ThermalSources.                                        *)
ThermalSourceIsBest ==
  done /\ reader = "thermal" => BestSourceIsTold(input.sensors, input.zones, result.best)

(* readGPUs: see GPUCards.                                                 *)
CardReadingsAreItsOwn ==
  done /\ reader = "gpu" => ReadingsAreOfTheCard(input.cards, input.smi, result)
=============================================================================
