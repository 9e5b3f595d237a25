----------------------------- MODULE Batteries -----------------------------
(***************************************************************************)
(* The battery snapshot: one directory of sysfs per supply, read into one  *)
(* reading each and added up.  A directory is a function from the files    *)
(* that can be read to their numbers; "status" is the state its word says. *)
(*                                                                         *)
(* Energies are in units of micro-ampere-hours times voltage, so that the  *)
(* two families of files measure alike; powers in current times voltage.   *)
(* What may be missing is a set, a ratio a pair.                           *)
(***************************************************************************)
EXTENDS Ratios, Sums, Functions

CONSTANTS Hour,         \* time.Hour, in units of a Duration
          MaxDuration   \* bound: math.MaxInt64, in the same units

ASSUME BatteryConstants == Hour \in Nat \ {0} /\ MaxDuration \in Nat

Has(dir, file) == file \in DOMAIN dir
Positive(dir, file) == Has(dir, file) /\ dir[file] > 0
Value(dir, file) == IF Has(dir, file) THEN {dir[file]} ELSE {}
Abs(n) == IF n < 0 THEN -n ELSE n

---------------------------------------------------------------------------
(* readSupply.                                                             *)

FromEnergy(dir) == Has(dir, "energy_now") /\ Positive(dir, "energy_full")
FromCharge(dir) == /\ ~FromEnergy(dir)
                   /\ Has(dir, "charge_now") /\ Positive(dir, "charge_full")

Charge(dir) ==
  IF FromEnergy(dir) THEN {Ratio(dir["energy_now"], dir["energy_full"])}
  ELSE IF FromCharge(dir) THEN {Ratio(dir["charge_now"], dir["charge_full"])}
  ELSE {Ratio(c, 100) : c \in Value(dir, "capacity")}

Energy(dir) ==
  IF Has(dir, "energy_now") THEN {dir["energy_now"]}
  ELSE IF FromCharge(dir) THEN {dir["charge_now"] * v : v \in Value(dir, "voltage_now")}
  ELSE {}

(* The full and the factory capacity.  The files of charge give both or    *)
(* neither.                                                                *)
EnergyPair(dir) ==
  [full |-> IF FromEnergy(dir) THEN {dir["energy_full"]} ELSE {},
   design |-> IF Positive(dir, "energy_full_design") THEN {dir["energy_full_design"]} ELSE {}]
ChargePair(dir) ==
  [full |-> {dir["charge_full"] * v : v \in Value(dir, "voltage_now")},
   design |-> {dir["charge_full_design"] * v : v \in Value(dir, "voltage_now")}]

(* Slip: the files of charge fill in what those of energy lack.            *)
FullAndDesignFilledIn(dir) ==
  LET pair == EnergyPair(dir)
  IN IF FromCharge(dir) /\ Positive(dir, "charge_full_design") /\ Has(dir, "voltage_now")
     THEN [full |-> IF pair.full = {} THEN ChargePair(dir).full ELSE pair.full,
           design |-> IF pair.design = {} THEN ChargePair(dir).design ELSE pair.design]
     ELSE pair

FullAndDesign(dir) ==
  LET pair == EnergyPair(dir)
  IN IF /\ pair.full = {} /\ pair.design = {}
        /\ FromCharge(dir) /\ Positive(dir, "charge_full_design") /\ Has(dir, "voltage_now")
     THEN ChargePair(dir) ELSE pair

Watts(dir) ==
  IF Has(dir, "power_now") THEN {Abs(dir["power_now"])}
  ELSE {Abs(c) * v : c \in Value(dir, "current_now"), v \in Value(dir, "voltage_now")}

(* batteryDevice.                                                          *)
Health(dir) ==
  {Clamp(Ratio(f, d)) : f \in FullAndDesign(dir).full, d \in FullAndDesign(dir).design \ {0}}

Device(dir) ==
  [state |-> dir["status"], charge |-> {Clamp(c) : c \in Charge(dir)},
   energy |-> Energy(dir), health |-> Health(dir), watts |-> Watts(dir)]

---------------------------------------------------------------------------
(* readBattery: the batteries and UPSes of the system, by their places in  *)
(* the directory, and what cannot be read.  systemScopeSupply: neither     *)
(* absent nor a peripheral.                                                *)

SystemScope(dir) ==
  /\ ~(Has(dir, "present") /\ dir["present"] = 0)
  /\ ~(Has(dir, "scope") /\ dir["scope"] = "Device")

Those(dirs, where(_)) == Restrict(dirs, {i \in DOMAIN dirs : where(dirs[i])})
Some(dirs, where(_)) == \E i \in DOMAIN dirs : where(dirs[i])

Supplies(dirs) ==
  Those(dirs, LAMBDA d : Has(d, "type") /\ d["type"] \in {"Battery", "UPS"} /\ SystemScope(d))
Unread(dirs) == {i \in DOMAIN dirs : ~Has(dirs[i], "type")}

(* aggregateSupplies.                                                      *)
Total(supplies, of(_), where(_)) ==
  SumOf([i \in DOMAIN Those(supplies, where) |-> of(supplies[i])])
The(set) == CHOOSE x \in set : TRUE

WithEnergy(d) == Energy(d) # {}
ByCapacity(d) == ~FromEnergy(d) /\ Charge(d) # {}

State(supplies) ==
  LET saw(s) == Some(supplies, LAMBDA d : d["status"] = s)
  IN IF saw("charging") THEN "charging"
     ELSE IF saw("discharging") THEN "discharging"
     ELSE IF saw("full") /\ ~saw("unknown") THEN "full"
     ELSE "unknown"

MeanOfRatios(supplies) ==
  LET sum == FoldFunction(AddRatios, Ratio(0, 1),
                          [i \in DOMAIN supplies |-> The(Charge(supplies[i]))])
  IN Ratio(sum[1], sum[2] * Cardinality(DOMAIN supplies))

(* Slip: the energy of a pack counts although what it holds when full is   *)
(* not known.                                                              *)
AggregateChargeOfAllEnergy(supplies) ==
  IF Some(supplies, FromEnergy)
  THEN {Clamp(Ratio(Total(supplies, LAMBDA d : d["energy_now"], LAMBDA d : Has(d, "energy_now")),
                    Total(supplies, LAMBDA d : d["energy_full"], FromEnergy)))}
  ELSE {}

AggregateCharge(supplies) ==
  LET packs == Those(supplies, ByCapacity)
  IN IF Some(supplies, FromEnergy)
     THEN {Clamp(Ratio(Total(supplies, LAMBDA d : d["energy_now"], FromEnergy),
                       Total(supplies, LAMBDA d : d["energy_full"], FromEnergy)))}
     ELSE IF DOMAIN packs = {} THEN {}
     ELSE IF \A i \in DOMAIN packs : FromCharge(packs[i])
     THEN {Clamp(Ratio(Total(packs, LAMBDA d : d["charge_now"], FromCharge),
                       Total(packs, LAMBDA d : d["charge_full"], FromCharge)))}
     ELSE {Clamp(MeanOfRatios(packs))}

MixedUnits(supplies) == Some(supplies, FromEnergy) /\ Some(supplies, ByCapacity)

(* The drain of all supplies, and of those whose energy counts.            *)
AllWatts(supplies) ==
  Total(supplies, LAMBDA d : The(Watts(d)), LAMBDA d : Watts(d) # {})
EnergyWatts(supplies) ==
  Total(supplies, LAMBDA d : The(Watts(d)), LAMBDA d : Watts(d) # {} /\ WithEnergy(d))
EnergySum(supplies) == Total(supplies, LAMBDA d : The(Energy(d)), WithEnergy)

(* A ratio of energy and power as a Duration, which is an integer.         *)
Duration(hours) == (hours[1] * Hour) \div hours[2]

(* One that does not fit a Duration, or is truncated to zero, is not told. *)
TimeRemaining(supplies) ==
  LET energy == EnergySum(supplies)
      drain == EnergyWatts(supplies)
  IN IF /\ State(supplies) = "discharging" /\ drain > 0 /\ energy > 0
        /\ energy * Hour <= MaxDuration * drain
     THEN {Duration(Ratio(energy, drain))} \ {0} ELSE {}

ReadBattery(dirs) ==
  LET supplies == Supplies(dirs)
  IN [present |-> DOMAIN supplies # {},
      devices |-> [i \in DOMAIN supplies |-> Device(supplies[i])],
      state |-> State(supplies),
      charge |-> AggregateCharge(supplies),
      energy |-> EnergySum(supplies), watts |-> AllWatts(supplies),
      time |-> TimeRemaining(supplies),
      issues |-> Cardinality(Unread(dirs)) + IF MixedUnits(supplies) THEN 1 ELSE 0]

---------------------------------------------------------------------------
(* Properties of one snapshot.                                             *)

Devices(snapshot) == {snapshot.devices[i] : i \in DOMAIN snapshot.devices}

(* The charge of the system lies between the charges of its packs          *)
(* (aggregateSupplies), whatever their units and sizes.                    *)
ChargeIsBetweenThePacks(snapshot) ==
  LET packs == UNION {d.charge : d \in Devices(snapshot)}
  IN /\ packs # {} <=> snapshot.charge # {}
     /\ \A c \in snapshot.charge :
          \E low, high \in packs : AtMost(low, c) /\ AtMost(c, high)

(* The time that remains is at least that of one of the packs, at most     *)
(* that of another when the drain of each pack is known, each truncated as *)
(* it is, and a positive Duration.                                         *)
TimeIsBetweenThePacks(snapshot) ==
  LET known == {d \in Devices(snapshot) : d.energy # {} /\ d.watts # {} /\ d.watts # {0}}
      left == {Duration(Ratio(The(d.energy), The(d.watts))) : d \in known}
  IN \A t \in snapshot.time :
       /\ \E low \in left : low <= t
       /\ (\A d \in Devices(snapshot) : d.energy # {} => d \in known) =>
            \E high \in left : t <= high
       /\ t \in 1..MaxDuration

(* The health of a pack divides capacities of one family of files.         *)
HealthIsOfOneFamily(dir) ==
  \A h \in Health(dir) :
    \E files \in {<<"energy_full", "energy_full_design">>, <<"charge_full", "charge_full_design">>} :
      /\ Positive(dir, files[1]) /\ Positive(dir, files[2])
      /\ LET exact == Clamp(Ratio(dir[files[1]], dir[files[2]]))
         IN AtMost(h, exact) /\ AtMost(exact, h)
=============================================================================
