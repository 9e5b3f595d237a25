--------------------------- MODULE ThermalSources ---------------------------
(***************************************************************************)
(* The choice of one temperature: pickKnownHwmon over the sensors of       *)
(* hwmon chips in order, and pickThermalZone over the thermal zones when   *)
(* no chip gives one.  A sensor is a record of the driver of its chip, the *)
(* prefix of its label, its index and what reading it gives, nothing when  *)
(* that fails; a zone has a type and a reading.  What cannot be looked     *)
(* into, a chip without a name, a zone without a type or a directory that  *)
(* cannot be listed, is one source that is Unnamed.                        *)
(***************************************************************************)
EXTENDS Integers, Sequences, Functions

Unnamed == "unnamed"

(* validCelsius.                                                           *)
ValidCelsius(c) == c > 0 /\ c < 150

(* hwmonDriverPriority, thermalZonePriority: a smaller number goes first.  *)
KnownDrivers == <<"k10temp", "zenpower", "coretemp", "ibmpowernv">>
KnownTypes == <<"cpu-thermal", "x86_pkg_temp", "acpitz">>
Place(known, name) == CHOOSE i \in 1..Len(known) : known[i] = name
IsKnown(known, name) == \E i \in 1..Len(known) : known[i] = name

(* hwmonSensorPriority.                                                    *)
RyzenLabels == [Tctl |-> 0, Tdie |-> 2, Package |-> 3, SoC |-> 4, Core |-> 5]
IntelLabels == [Package |-> 0, Core |-> 2]
LabelsOf(driver) ==
  IF driver \in {"k10temp", "zenpower"} THEN RyzenLabels
  ELSE IF driver = "coretemp" THEN IntelLabels
  ELSE [l \in {} |-> 0]

SensorPriority(driver, label, index) ==
  LET labels == LabelsOf(driver)
  IN IF label \in DOMAIN labels /\ labels[label] = 0 THEN 0
     ELSE IF index = 1 THEN 1
     ELSE IF label \in DOMAIN labels THEN labels[label]
     ELSE 20

Candidate(driver, sensor, celsius, source) ==
  [driverPri |-> driver, sensorPri |-> sensor, celsius |-> celsius, source |-> source]

SensorCandidates(s) ==
  {Candidate(Place(KnownDrivers, s.driver), SensorPriority(s.driver, s.label, s.index),
             c, <<s.driver, s.label>>)
     : c \in {c \in s.celsius : IsKnown(KnownDrivers, s.driver) /\ ValidCelsius(c)}}
ZoneCandidates(z) ==
  {Candidate(Place(KnownTypes, z.type), 0, c, <<z.type>>)
     : c \in {c \in z.celsius : IsKnown(KnownTypes, z.type) /\ ValidCelsius(c)}}

(* Slip: a sensor of high priority on a chip of low priority goes first.   *)
BetterSensor(cand, best) ==
  \/ cand.driverPri < best.driverPri
  \/ cand.sensorPri < best.sensorPri
  \/ /\ cand.driverPri = best.driverPri /\ cand.sensorPri = best.sensorPri
     /\ cand.celsius > best.celsius

(* A tie goes to the hotter one, and then to the first.                    *)
Better(cand, best) ==
  \/ cand.driverPri < best.driverPri
  \/ cand.driverPri = best.driverPri /\ cand.sensorPri < best.sensorPri
  \/ /\ cand.driverPri = best.driverPri /\ cand.sensorPri = best.sensorPri
     /\ cand.celsius > best.celsius

Pick(candidates) ==
  LET pick[i \in 0..Len(candidates)] ==
        IF i = 0 THEN {}
        ELSE {cand \in candidates[i] : \A best \in pick[i - 1] : Better(cand, best)}
             \cup {best \in pick[i - 1] : \A cand \in candidates[i] : ~Better(cand, best)}
  IN pick[Len(candidates)]
AllSensors(sensors) == [i \in DOMAIN sensors |-> SensorCandidates(sensors[i])]
AllZones(zones) == [i \in DOMAIN zones |-> ZoneCandidates(zones[i])]

(* An issue for every source of a known name that cannot be read, and for  *)
(* every one without a name.                                               *)
IsUnread(known, name, celsius) ==
  \/ name = Unnamed
  \/ IsKnown(known, name) /\ celsius = {}
SensorIssues(sensors) == SelectSeq(sensors, LAMBDA s : IsUnread(KnownDrivers, s.driver, s.celsius))
ZoneIssues(zones) == SelectSeq(zones, LAMBDA z : IsUnread(KnownTypes, z.type, z.celsius))

(* readThermal.                                                            *)
ReadThermal(sensors, zones) ==
  LET hwmon == Pick(AllSensors(sensors))
  IN IF hwmon # {} THEN [best |-> hwmon, issues |-> SensorIssues(sensors)]
     ELSE [best |-> Pick(AllZones(zones)), issues |-> SensorIssues(sensors) \o ZoneIssues(zones)]

---------------------------------------------------------------------------
(* Property of one reading.                                                *)

(* The temperature told is that of a live sensor which no other live one   *)
(* exceeds: by its chip, then by its place on the chip, then by heat.      *)
(* Dead sensors and the order of the directories change nothing, and a     *)
(* zone is told only when no chip is.                                      *)
BestSourceIsTold(sensors, zones, told) ==
  LET live == UNION Range(AllSensors(sensors))
      among == IF live # {} THEN live ELSE UNION Range(AllZones(zones))
      key(c) == 1000000 * c.driverPri + 1000 * c.sensorPri - c.celsius
  IN /\ told = {} <=> among = {}
     /\ \A t \in told : t \in among /\ \A c \in among : key(t) <= key(c)
=============================================================================
