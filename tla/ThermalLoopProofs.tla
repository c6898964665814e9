-------------------------- MODULE ThermalLoopProofs -------------------------
(***************************************************************************)
(* The integration of the thermal node does not ring, and its thermostat   *)
(* holds its band and does not chatter, for every node the configuration   *)
(* accepts, every override and every sequence of faults, and whatever the  *)
(* wire rounds; and what a node reports is decoded as closely as the       *)
(* roundings on its way allow, and in order, for every field and format.   *)
(***************************************************************************)
EXTENDS ThermalLoop, WellFoundedInduction, TLAPS

Numbers == Overridden \ {"heater_enabled"}
Temperatures == {"temperature_c", "ambient_temperature_c"}

(* What an override may hold.                                                *)
Fits(name, value) ==
  /\ name \in Numbers => value \in Int
  /\ name \in Temperatures => value >= AbsoluteZero

(* The node and its overrides are numbers no colder than absolute zero.      *)
ThermalInv ==
  /\ temperature \in Int /\ temperature >= AbsoluteZero
  /\ DOMAIN over = Overridden
  /\ \A name \in Overridden : over[name] = None \/ Fits(name, over[name])

-----------------------------------------------------------------------------
(* Arithmetic of one tick.                                                   *)

(* Capacity times the change is between nothing and the power: a coupling    *)
(* within the capacity cannot overshoot.                                     *)
LEMMA CoupledChange ==
  ASSUME NEW power \in Int, NEW k \in 0..Capacity
  PROVE  /\ Change(power) \in Int
         /\ power >= 0 => Change(power) >= 0 /\ k * Change(power) <= power
         /\ power <= 0 => Change(power) <= 0 /\ k * Change(power) >= power
<1>0. Capacity \in Nat /\ Capacity > 0 /\ k \in Nat /\ k <= Capacity
  BY ThermalAssumption
<1>1. ASSUME NEW p \in Nat
      PROVE  /\ p \div Capacity \in Nat
             /\ k * (p \div Capacity) \in Nat
             /\ k * (p \div Capacity) <= p
  <2> DEFINE q == p \div Capacity
  <2>1. q \in Nat /\ Capacity * q <= p
    BY <1>0
  <2> HIDE DEF q
  <2>2. k * q <= Capacity * q
    BY <1>0, <2>1
  <2>3. k * q \in Nat /\ Capacity * q \in Nat
    BY <1>0, <2>1
  <2> QED
    BY <2>1, <2>2, <2>3 DEF q
<1>2. CASE power >= 0
  <2>1. Change(power) = power \div Capacity /\ power \in Nat
    BY <1>2 DEF Change
  <2>2. Change(power) \in Nat /\ k * Change(power) <= power
    BY <2>1, <1>1
  <2>3. power = 0 => Change(power) = 0
    BY <2>1, <1>0
  <2>4. power = 0 => k * Change(power) = 0
    BY <2>3, <1>0
  <2> QED
    BY <1>2, <2>2, <2>3, <2>4
<1>3. CASE power < 0
  <2> DEFINE q == (-power) \div Capacity
  <2>1. Change(power) = -q /\ -power \in Nat
    BY <1>3 DEF Change
  <2>2. q \in Nat /\ k * q \in Nat /\ k * q <= -power
    BY <2>1, <1>1
  <2> HIDE DEF q
  <2>3. k * (-q) = -(k * q)
    BY <1>0, <2>2
  <2> QED
    BY <1>3, <2>1, <2>2, <2>3
<1> QED
  BY <1>2, <1>3

(* The coupling the configuration vouches for, radiator degraded or not.     *)
LEMMA CouplingStable ==
  ASSUME ThermalInv, over["conductance_w_per_k"] = None
  PROVE  Coupling \in 0..Capacity
<1>1. /\ Conductance \in Nat /\ Capacity \in Nat /\ Conductance <= Capacity
      /\ DegradedDivisor \in Nat /\ DegradedDivisor > 0
  BY ThermalAssumption DEF StableIntegration
<1>2. Conductance \div DegradedDivisor \in 0..Conductance
  <2> DEFINE q == Conductance \div DegradedDivisor
  <2>1. q \in Nat /\ DegradedDivisor * q <= Conductance
    BY <1>1
  <2> HIDE DEF q
  <2>2. q <= DegradedDivisor * q /\ DegradedDivisor * q \in Nat
    BY <2>1, <1>1
  <2> QED
    BY <1>1, <2>1, <2>2 DEF q
<1> QED
  BY <1>1, <1>2 DEF Coupling, Resolve

(* What the node reads is a number.                                          *)
LEMMA ReadingsTyped ==
  ASSUME ThermalInv
  PROVE  /\ Temperature \in Int /\ Temperature >= AbsoluteZero
         /\ Environment \in Int /\ Environment >= AbsoluteZero
         /\ HeaterPower \in Int /\ Coupling \in Int
         /\ Internal \in Int /\ AbsoluteZero \in Int
<1>1. /\ AbsoluteZero \in Int /\ Ambient \in Int /\ Ambient >= AbsoluteZero
      /\ Heater \in Int /\ Internal \in Int /\ Conductance \in Int
  BY ThermalAssumption
<1>2. ASSUME NEW name \in Numbers
      PROVE  over[name] = None \/ over[name] \in Int
  BY DEF ThermalInv, Fits, Numbers
<1>3. ASSUME NEW name \in Temperatures
      PROVE  over[name] = None \/ (over[name] \in Int /\ over[name] >= AbsoluteZero)
  BY DEF ThermalInv, Fits, Numbers, Temperatures, Overridden
<1>4. Conductance \div DegradedDivisor \in Int
  BY ThermalAssumption
<1>5. Temperature \in Int /\ Temperature >= AbsoluteZero
  BY <1>3 DEF Temperature, Resolve, ThermalInv, Temperatures
<1>6. Environment \in Int /\ Environment >= AbsoluteZero
  BY <1>1, <1>3 DEF Environment, Resolve, Temperatures
<1>7. HeaterPower \in Int
  BY <1>1, <1>2 DEF HeaterPower, Resolve, Numbers, Overridden
<1>8. Coupling \in Int
  BY <1>1, <1>2, <1>4 DEF Coupling, Resolve, Numbers, Overridden
<1> QED
  BY <1>1, <1>5, <1>6, <1>7, <1>8

-----------------------------------------------------------------------------
(* The invariant.                                                            *)
LEMMA ThermalInit == Init => ThermalInv
BY ThermalAssumption DEF Init, ThermalInv, Overridden

LEMMA ThermalStep == ThermalInv /\ [Next]_vars => ThermalInv'
<1> SUFFICES ASSUME ThermalInv, [Next]_vars
             PROVE  ThermalInv'
  OBVIOUS
<1>1. CASE PhysicalStep
  <2>1. temperature' = Ticked /\ UNCHANGED over
    BY <1>1 DEF PhysicalStep
  <2>2. Net(Temperature) \in Int
    BY ReadingsTyped DEF Net
  <2>3. 0 \in 0..Capacity
    BY ThermalAssumption
  <2>4. Change(Net(Temperature)) \in Int
    BY <2>2, <2>3, CoupledChange
  <2>5. Ticked \in Int /\ Ticked >= AbsoluteZero
    BY <2>4, ReadingsTyped DEF Ticked, Floor
  <2> QED
    BY <2>1, <2>5 DEF ThermalInv, Fits
<1>2. CASE InjectFaultStep
  <2>1. UNCHANGED temperature
    BY <1>2 DEF InjectFaultStep
  <2>2. ASSUME NEW o \in Override, over' = [over EXCEPT ![o[1]] = o[2]]
        PROVE  ThermalInv'
    <3>1. o[1] \in Overridden /\ Fits(o[1], o[2])
      BY ThermalAssumption DEF Fits, Numbers, Temperatures
    <3> QED
      BY <2>1, <2>2, <3>1 DEF ThermalInv, Fits
  <2>3. CASE UNCHANGED over
    BY <2>1, <2>3 DEF ThermalInv, Fits
  <2> QED
    BY <1>2, <2>2, <2>3 DEF InjectFaultStep
<1>3. CASE SendCommandStep
  BY <1>3 DEF SendCommandStep, ThermalInv, Fits
<1>4. CASE OverrideEnds
  BY <1>4 DEF OverrideEnds, ThermalInv, Fits
<1>5. CASE UNCHANGED vars
  BY <1>5 DEF vars, ThermalInv, Fits
<1> QED
  BY <1>1, <1>2, <1>3, <1>4, <1>5 DEF Next

LEMMA ThermalInvariant == Spec => []ThermalInv
<1> QED
  BY ThermalInit, ThermalStep, PTL DEF Spec

-----------------------------------------------------------------------------
(* Power and temperature: a node warmer by d gives k * d more away.          *)
LEMMA PowerFalls ==
  ASSUME ThermalInv, NEW t \in Int, NEW d \in Int
  PROVE  /\ Net(t) \in Int
         /\ Coupling * d \in Int
         /\ Net(t + d) = Net(t) - Coupling * d
<1> DEFINE k == Coupling
           p == HeaterPower
           e == Environment
<1>1. k \in Int /\ p \in Int /\ e \in Int /\ Internal \in Int
  BY ReadingsTyped
<1>2. /\ Net(t) = Internal + p - k * (t - e)
      /\ Net(t + d) = Internal + p - k * ((t + d) - e)
  BY DEF Net
<1> HIDE DEF k, p, e
<1>3. /\ k * ((t + d) - e) = k * (t - e) + k * d
      /\ k * d \in Int /\ k * (t - e) \in Int
  BY <1>1
<1> QED
  BY <1>1, <1>2, <1>3 DEF k

(* One tick leaves the power on its side of zero.  The clamp at absolute     *)
(* zero keeps it there: a node that would cool past it still loses heat at   *)
(* where it would have been, and tends below what it is clamped to.          *)
LEMMA TickDoesNotCross ==
  ASSUME ThermalInv, over["temperature_c"] = None, over["conductance_w_per_k"] = None
  PROVE  \/ Net(temperature) >= 0 /\ Net(Ticked) >= 0
         \/ Net(temperature) <= 0 /\ Net(Ticked) <= 0
<1> DEFINE t == temperature
           power == Net(t)
           d == Change(power)
<1>1. Coupling \in 0..Capacity /\ Capacity \in Nat
  BY CouplingStable, ThermalAssumption
<1>2. t \in Int /\ t >= AbsoluteZero /\ AbsoluteZero \in Int
  BY ThermalAssumption DEF ThermalInv
<1>3. power \in Int
  BY <1>2, PowerFalls
<1>4. /\ d \in Int
      /\ power >= 0 => d >= 0 /\ Coupling * d <= power
      /\ power <= 0 => d <= 0 /\ Coupling * d >= power
  BY <1>1, <1>3, CoupledChange
<1>5. Ticked = Floor(t + d)
  BY DEF Ticked, Temperature, Resolve
<1> HIDE DEF d
<1>6. Net(t + d) \in Int /\ Coupling * d \in Int /\ Net(t + d) = power - Coupling * d
  <2>1. t \in Int /\ d \in Int
    BY <1>2, <1>4
  <2> HIDE DEF t
  <2>2. /\ Coupling * d \in Int
        /\ Net(t + d) = Net(t) - Coupling * d
    BY <2>1, PowerFalls
  <2>3. t + d \in Int
    BY <2>1
  <2>4. Net(t + d) \in Int
    BY <2>1, <2>3, PowerFalls
  <2> QED
    BY <2>2, <2>4
<1> HIDE DEF t, power
<1>7. CASE power >= 0
  <2>1. Ticked = t + d
    BY <1>2, <1>4, <1>5, <1>7 DEF Floor
  <2> QED
    BY <1>3, <1>4, <1>6, <1>7, <2>1 DEF power, t
<1>8. CASE power < 0
  <2>1. Net(t + d) <= 0
    BY <1>3, <1>4, <1>6, <1>8
  <2>2. CASE t + d >= AbsoluteZero
    <3>1. Ticked = t + d
      BY <1>2, <1>4, <1>5, <2>2 DEF Floor
    <3> QED
      BY <1>3, <1>8, <2>1, <3>1 DEF power, t
  <2>3. CASE t + d < AbsoluteZero
    <3> DEFINE c == AbsoluteZero - (t + d)
    <3>1. c \in Nat /\ AbsoluteZero = (t + d) + c
      BY <1>2, <1>4, <2>3
    <3>2. Ticked = (t + d) + c
      BY <1>5, <2>3, <3>1 DEF Floor
    <3>3. t + d \in Int
      BY <1>2, <1>4
    <3> HIDE DEF c
    <3>4. Net((t + d) + c) = Net(t + d) - Coupling * c
      BY <3>1, <3>3, PowerFalls
    <3>5. Coupling * c \in Nat
      BY <1>1, <3>1
    <3> QED
      BY <1>3, <1>6, <1>8, <2>1, <3>2, <3>4, <3>5 DEF power, t
  <2> QED
    BY <1>2, <1>4, <2>2, <2>3
<1> QED
  BY <1>3, <1>7, <1>8

(* The temperature is changed by ticks alone.                                *)
LEMMA OnlyTicksHeat ==
  ASSUME [Next]_vars, temperature' # temperature
  PROVE  temperature' = Ticked
BY DEF Next, PhysicalStep, InjectFaultStep, SendCommandStep, OverrideEnds, vars

(* The integration never rings: no physical step carries the node past the   *)
(* temperature it tends to, for any node the stability check of the          *)
(* configuration accepts, with any fault and any override but one of the     *)
(* conductance.                                                              *)
THEOREM IntegrationNeverRings == Spec => NoRinging
<1> DEFINE Crosses ==
      /\ temperature' # temperature
      /\ over["temperature_c"] = None /\ over["conductance_w_per_k"] = None
         Kept ==
      \/ Net(temperature) >= 0 /\ Net(temperature') >= 0
      \/ Net(temperature) <= 0 /\ Net(temperature') <= 0
<1>1. ASSUME ThermalInv, [Next]_vars, Crosses
      PROVE  Kept
  <2>1. temperature' = Ticked
    BY <1>1, OnlyTicksHeat
  <2> QED
    BY <1>1, <2>1, TickDoesNotCross
<1>2. ThermalInv /\ [Next]_vars => [Crosses => Kept]_vars
  BY <1>1
<1> QED
  BY <1>2, ThermalInvariant, PTL DEF Spec, NoRinging

-----------------------------------------------------------------------------
(* Induction over the naturals, about a set: the library's theorem is about *)
(* an operator, which the provers cannot instantiate.                      *)
LEMMA SetInduction ==
  ASSUME NEW S \in SUBSET Nat, 0 \in S, \A n \in S : n + 1 \in S
  PROVE  S = Nat
<1> SUFFICES ASSUME Nat \ S # {} PROVE FALSE
  OBVIOUS
<1>1. PICK x \in Nat \ S : \A y \in Nat \ S : ~(<<y, x>> \in OpToRel(<, Nat))
  BY NatLessThanWellFounded, WFMin
<1>2. x \in Nat /\ x \notin S /\ x # 0
  OBVIOUS
<1>3. x - 1 \in Nat /\ x - 1 < x /\ (x - 1) + 1 = x
  BY <1>2
<1>4. x - 1 \in S
  <2>1. \A y \in Nat : y < x => <<y, x>> \in OpToRel(<, Nat)
    BY <1>2 DEF OpToRel
  <2> QED
    BY <1>1, <1>3, <2>1
<1> QED
  BY <1>2, <1>3, <1>4

-----------------------------------------------------------------------------
(* Division by a positive number: what it is ...                             *)
LEMMA Division ==
  ASSUME NEW x \in Int, NEW d \in Nat \ {0}
  PROVE  /\ x \div d \in Int /\ x % d \in Nat /\ x % d < d
         /\ d * (x \div d) \in Int /\ x = d * (x \div d) + (x % d)
<1> DEFINE q == x \div d
           r == x % d
<1>1. q \in Int /\ r \in Nat /\ r < d
  OBVIOUS
<1>2. r = x - d * q
  OBVIOUS
<1> HIDE DEF q, r
<1>3. d * q \in Int
  BY <1>1
<1>4. x = d * q + r
  BY <1>1, <1>2, <1>3
<1> QED
  BY <1>1, <1>3, <1>4, Zenon DEF q, r

(* ... and that nothing else is.                                            *)
LEMMA DivisionUnique ==
  ASSUME NEW x \in Int, NEW d \in Nat \ {0}, NEW q \in Int, NEW r \in Nat,
         r < d, x = d * q + r
  PROVE  x \div d = q /\ x % d = r
<1> DEFINE p == x \div d
           s == x % d
<1>1. p \in Int /\ s \in Nat /\ s < d /\ d * p \in Int /\ x = d * p + s
  BY Division
<1> HIDE DEF p, s
<1>2. d * q \in Int /\ d * (p - q) = d * p - d * q
  BY <1>1
<1>3. d * (p - q) = r - s /\ r - s < d /\ r - s > -d
  BY <1>1, <1>2
<1>4. p - q = 0
  <2>1. CASE p - q >= 1
    <3> DEFINE e == p - q
    <3>1. e \in Int /\ e >= 1 /\ d > 0 /\ d * e < d
      BY <1>1, <1>3, <2>1
    <3> HIDE DEF e
    <3>2. d * e >= d /\ d * e \in Int
      BY <3>1
    <3> QED
      BY <3>1, <3>2
  <2>2. CASE p - q <= -1
    <3> DEFINE e == q - p
    <3>1. e \in Int /\ e >= 1 /\ d > 0
      BY <1>1, <2>2
    <3>2. d * e < d
      <4>1. d * e = d * q - d * p
        BY <1>1
      <4> HIDE DEF e
      <4> QED
        BY <1>1, <1>2, <1>3, <4>1
    <3> HIDE DEF e
    <3>3. d * e >= d /\ d * e \in Int
      BY <3>1
    <3> QED
      BY <3>1, <3>2, <3>3
  <2> QED
    BY <1>1, <2>1, <2>2
<1>5. p = q
  BY <1>1, <1>4
<1> QED
  BY <1>1, <1>2, <1>5 DEF p, s

(* One byte more to the right: what is left and what has been taken.        *)
LEMMA NextByte ==
  ASSUME NEW raw \in Int, NEW s \in Nat \ {0}, NEW t \in Nat \ {0}, NEW a, a = raw \div s
  PROVE  /\ raw \div (256 * s) = a \div 256
         /\ 256 * ((a \div 256) % t) + (a % 256) = a % (256 * t)
<1> DEFINE q == a \div 256
           r == a % 256
           v == q \div t
           u == q % t
           rest == raw % s
<1>1. a \in Int /\ rest \in Nat /\ rest < s /\ s * a \in Int /\ raw = s * a + rest
  BY Division
<1> HIDE DEF rest
<1>2. q \in Int /\ r \in Nat /\ r < 256 /\ a = 256 * q + r
  BY <1>1
<1> HIDE DEF q, r
<1>3. v \in Int /\ u \in Nat /\ u < t /\ t * v \in Int /\ q = t * v + u
  BY <1>2, Division
<1> HIDE DEF v, u
<1>4. raw \div (256 * s) = q
  <2>1. 256 * s \in Nat \ {0} /\ s * r \in Nat /\ s * q \in Int
    BY <1>2
  <2>2. s * a = 256 * (s * q) + s * r
    BY <1>2
  <2>3. (256 * s) * q = 256 * (s * q)
    BY <1>2
  <2>4. s * r + rest \in Nat /\ s * r + rest < 256 * s
    <3>1. r <= 255
      BY <1>2
    <3>2. s * r <= s * 255
      BY <1>2, <3>1
    <3> QED
      BY <1>1, <2>1, <3>2
  <2>5. raw = (256 * s) * q + (s * r + rest)
    BY <1>1, <2>1, <2>2, <2>3
  <2> QED
    BY <1>2, <2>1, <2>4, <2>5, DivisionUnique
<1>5. a % (256 * t) = 256 * u + r
  <2>1. 256 * t \in Nat \ {0} /\ (256 * t) * v = 256 * (t * v)
    BY <1>3
  <2>2. 256 * u + r \in Nat /\ 256 * u + r < 256 * t
    BY <1>2, <1>3
  <2>3. a = (256 * t) * v + (256 * u + r)
    BY <1>2, <1>3, <2>1
  <2>4. PICK d, w : d = 256 * t /\ w = 256 * u + r
    OBVIOUS
  <2>5. a \in Int /\ d \in Nat \ {0} /\ v \in Int /\ w \in Nat /\ w < d /\ a = d * v + w
    BY <1>1, <1>3, <2>1, <2>2, <2>3, <2>4
  <2>6. a % d = w
    BY ONLY <2>5, DivisionUnique
  <2> QED
    BY <2>4, <2>6
<1> QED
  BY <1>1, <1>4, <1>5, Zenon DEF q, r, u

-----------------------------------------------------------------------------
(* Powers of two, given as a finite function.                               *)
Powers(f, n) == f[0] = 1 /\ \A i \in 1..n : f[i] = 2 * f[i - 1]

(* There is such a function for every length.                               *)
LEMMA PowersExist ==
  \A n \in Nat : \E f \in [0..n -> Nat \ {0}] : Powers(f, n)
<1> DEFINE Done == {n \in Nat : \E f \in [0..n -> Nat \ {0}] : Powers(f, n)}
<1>1. 0 \in Done
  <2>1. PICK f : f = [i \in 0..0 |-> 1]
    OBVIOUS
  <2>2. f \in [0..0 -> Nat \ {0}] /\ f[0] = 1
    BY <2>1
  <2> QED
    BY <2>2 DEF Powers
<1>2. ASSUME NEW m \in Done
      PROVE  m + 1 \in Done
  <2>1. m \in Nat /\ m + 1 \in Nat
    OBVIOUS
  <2>2. PICK f \in [0..m -> Nat \ {0}] : Powers(f, m)
    OBVIOUS
  <2>3. PICK g : g = [i \in 0..(m + 1) |-> IF i = m + 1 THEN 2 * f[m] ELSE f[i]]
    OBVIOUS
  <2>4. f[m] \in Nat \ {0} /\ 2 * f[m] \in Nat \ {0}
    BY <2>1
  <2>5. g \in [0..(m + 1) -> Nat \ {0}] /\ g[m + 1] = 2 * f[m] /\ \A i \in 0..m : g[i] = f[i]
    BY <2>1, <2>3, <2>4
  <2>6. g[0] = 1
    BY <2>1, <2>2, <2>5 DEF Powers
  <2>7. ASSUME NEW i \in 1..(m + 1)
        PROVE  g[i] = 2 * g[i - 1]
    <3>1. CASE i = m + 1
      BY <2>1, <2>5, <3>1
    <3>2. CASE i # m + 1
      <4>1. i \in 1..m /\ i \in 0..m /\ i - 1 \in 0..m
        BY <2>1, <3>2
      <4> QED
        BY <2>2, <2>5, <4>1 DEF Powers
    <3> QED
      BY <3>1, <3>2
  <2>8. Powers(g, m + 1)
    BY <2>6, <2>7 DEF Powers
  <2> QED
    BY <2>1, <2>5, <2>8
<1> HIDE DEF Done
<1>3. Done = Nat
  <2>1. Done \in SUBSET Nat
    BY DEF Done
  <2> QED
    BY <1>1, <1>2, <2>1, SetInduction
<1> QED
  BY <1>3 DEF Done

(* ... and no two of them differ.                                           *)
LEMMA PowersAgree ==
  ASSUME NEW m \in Nat, NEW f, Powers(f, m), NEW n \in Nat, NEW g, Powers(g, n)
  PROVE  \A i \in Nat : i <= m /\ i <= n => f[i] = g[i]
<1> DEFINE Done == {i \in Nat : i <= m /\ i <= n => f[i] = g[i]}
<1>1. 0 \in Done
  BY DEF Powers
<1>2. ASSUME NEW i \in Done
      PROVE  i + 1 \in Done
  <2> SUFFICES ASSUME i + 1 <= m, i + 1 <= n
               PROVE  f[i + 1] = g[i + 1]
    OBVIOUS
  <2>1. i \in Nat /\ i <= m /\ i <= n /\ i + 1 \in 1..m /\ i + 1 \in 1..n /\ (i + 1) - 1 = i
    OBVIOUS
  <2>2. f[i] = g[i]
    BY <2>1
  <2>3. f[i + 1] = 2 * f[i] /\ g[i + 1] = 2 * g[i]
    BY <2>1 DEF Powers
  <2> QED
    BY <2>2, <2>3
<1> HIDE DEF Done
<1>3. Done = Nat
  <2>1. Done \in SUBSET Nat
    BY DEF Done
  <2> QED
    BY <1>1, <1>2, <2>1, SetInduction
<1> QED
  BY <1>3 DEF Done

(* What Two is.                                                             *)
LEMMA TwoIs ==
  /\ Two[0] = 1
  /\ \A n \in Nat : Two[n] \in Nat \ {0} /\ Two[n + 1] = 2 * Two[n]
<1> DEFINE P(n) == CHOOSE f \in [0..n -> Nat \ {0}] : Powers(f, n)
           Step(h) == [n \in Nat |-> IF n = 0 THEN 1 ELSE 2 * h[n - 1]]
<1>1. ASSUME NEW n \in Nat
      PROVE  P(n) \in [0..n -> Nat \ {0}] /\ Powers(P(n), n)
  BY PowersExist
<1> HIDE DEF P
<1>2. PICK h : h = [n \in Nat |-> P(n)[n]]
  OBVIOUS
<1>3. h[0] = 1
  BY <1>1, <1>2 DEF Powers
<1>4. ASSUME NEW n \in Nat
      PROVE  h[n] \in Nat \ {0} /\ h[n + 1] = 2 * h[n]
  <2>1. n + 1 \in Nat /\ n + 1 \in 1..(n + 1) /\ (n + 1) - 1 = n /\ n \in 0..n /\ n <= n /\ n <= n + 1
    OBVIOUS
  <2>2. h[n] = P(n)[n] /\ h[n + 1] = P(n + 1)[n + 1]
    BY <1>2, <2>1
  <2>3. P(n + 1)[n + 1] = 2 * P(n + 1)[n]
    BY <1>1, <2>1 DEF Powers
  <2>4. P(n + 1)[n] = P(n)[n]
    BY <1>1, <2>1, PowersAgree
  <2>5. P(n)[n] \in Nat \ {0}
    BY <1>1, <2>1
  <2> QED
    BY <2>2, <2>3, <2>4, <2>5
<1>5. h = Step(h)
  <2>1. \A n \in Nat : h[n] = IF n = 0 THEN 1 ELSE 2 * h[n - 1]
    <3>1. ASSUME NEW n \in Nat, n # 0
          PROVE  h[n] = 2 * h[n - 1]
      <4>1. n - 1 \in Nat /\ (n - 1) + 1 = n
        BY <3>1
      <4> QED
        BY <1>4, <4>1
    <3> QED
      BY <1>3, <3>1
  <2>2. h = [n \in Nat |-> h[n]]
    BY <1>2
  <2> QED
    BY <2>1, <2>2
<1>6. Two = CHOOSE u : u = Step(u)
  BY DEF Two
<1>7. Two = Step(Two)
  BY <1>5, <1>6
<1>8. \A n \in Nat : Two[n] = IF n = 0 THEN 1 ELSE 2 * Two[n - 1]
  BY <1>7
<1> DEFINE Done == {n \in Nat : Two[n] \in Nat \ {0}}
<1>9. ASSUME NEW n \in Nat
      PROVE  Two[n + 1] = 2 * Two[n]
  <2>1. n + 1 \in Nat /\ n + 1 # 0 /\ (n + 1) - 1 = n
    OBVIOUS
  <2> QED
    BY <1>8, <2>1
<1>10. Done = Nat
  <2>1. Done \in SUBSET Nat /\ 0 \in Done
    BY <1>8
  <2>2. ASSUME NEW n \in Done
        PROVE  n + 1 \in Done
    BY <1>9
  <2> HIDE DEF Done
  <2> QED
    BY <2>1, <2>2, SetInduction
<1> QED
  BY <1>8, <1>9, <1>10

(* What Span is: eight bits more to the byte.                                *)
LEMMA SpanIs ==
  /\ Span(0) = 1
  /\ \A n \in Nat : Span(n) \in Nat \ {0} /\ Span(n + 1) = 256 * Span(n)
<1>1. Span(0) = 1
  BY TwoIs DEF Span
<1>2. ASSUME NEW n \in Nat
      PROVE  Span(n) \in Nat \ {0} /\ Span(n + 1) = 256 * Span(n)
  <2>1. PICK m : m = 8 * n
    OBVIOUS
  <2>2. /\ m \in Nat /\ m + 1 \in Nat /\ (m + 1) + 1 \in Nat /\ (m + 2) + 1 \in Nat
        /\ 8 * (n + 1) = m + 8
    BY <2>1
  <2>3. /\ Two[m] \in Nat \ {0}
        /\ \A k \in {m, m + 1, m + 2, m + 3, m + 4, m + 5, m + 6, m + 7} :
             Two[k + 1] = 2 * Two[k]
    BY <2>2, TwoIs
  <2>4. /\ Two[m + 1] = 2 * Two[m] /\ Two[m + 2] = 2 * Two[m + 1]
        /\ Two[m + 3] = 2 * Two[m + 2] /\ Two[m + 4] = 2 * Two[m + 3]
    <3>1. /\ (m + 1) + 1 = m + 2 /\ (m + 2) + 1 = m + 3 /\ (m + 3) + 1 = m + 4
      BY <2>2
    <3> QED
      BY <2>3, <3>1
  <2>5. /\ Two[m + 5] = 2 * Two[m + 4] /\ Two[m + 6] = 2 * Two[m + 5]
        /\ Two[m + 7] = 2 * Two[m + 6] /\ Two[m + 8] = 2 * Two[m + 7]
    <3>1. /\ (m + 4) + 1 = m + 5 /\ (m + 5) + 1 = m + 6 /\ (m + 6) + 1 = m + 7
          /\ (m + 7) + 1 = m + 8
      BY <2>2
    <3> QED
      BY <2>3, <3>1
  <2>6. Two[m + 8] = 256 * Two[m]
    BY <2>3, <2>4, <2>5
  <2> QED
    BY <2>1, <2>2, <2>3, <2>6 DEF Span
<1> QED
  BY <1>1, <1>2

-----------------------------------------------------------------------------
(* from_bytes after to_bytes: after i bytes it has the upper i bytes of raw. *)
Taken(raw, n) == [i \in 0..n |-> (raw \div Span(n - i)) % Span(i)]

(* Byte i of raw among n, in big-endian order, and the n of them as a number.*)
ByteOf(raw, n, i) == (raw \div Span(n - i)) % 256
Rest(raw, n) == raw % Span(n)

(* Each byte joins on the right, and all of them make the number.            *)
LEMMA TakenNext ==
  ASSUME NEW raw \in Int, NEW n \in Nat, NEW c, c = Taken(raw, n)
  PROVE  /\ c[0] = 0 /\ c[n] = Rest(raw, n)
         /\ \A i \in 1..n : c[i] = 256 * c[i - 1] + ByteOf(raw, n, i)
<1>1. c = Taken(raw, n)
  OBVIOUS
<1>2. \A i \in 0..n : c[i] = (raw \div Span(n - i)) % Span(i)
  BY <1>1 DEF Taken
<1>3. c[0] = 0
  <2>1. 0 \in 0..n /\ n - 0 = n /\ Span(n) \in Nat \ {0} /\ Span(0) = 1
    BY SpanIs
  <2>2. PICK q : q = raw \div Span(n)
    OBVIOUS
  <2>3. q \in Int
    BY <2>1, <2>2, Division
  <2>4. q % 1 = 0
    BY <2>3
  <2> QED
    BY <1>2, <2>1, <2>2, <2>4
<1>4. c[n] = raw % Span(n)
  <2>1. n \in 0..n /\ n - n = 0 /\ Span(0) = 1
    BY SpanIs
  <2>2. raw \div 1 = raw
    OBVIOUS
  <2> QED
    BY <1>2, <2>1, <2>2
<1>5. ASSUME NEW i \in 1..n
      PROVE  c[i] = 256 * c[i - 1] + ((raw \div Span(n - i)) % 256)
  <2>1. /\ i \in 0..n /\ i - 1 \in 0..n /\ n - i \in Nat /\ i - 1 \in Nat
        /\ n - (i - 1) = (n - i) + 1 /\ (i - 1) + 1 = i
    OBVIOUS
  <2>2. PICK s, t : s = Span(n - i) /\ t = Span(i - 1)
    OBVIOUS
  <2>3. s \in Nat \ {0} /\ t \in Nat \ {0} /\ Span(n - (i - 1)) = 256 * s /\ Span(i) = 256 * t
    BY <2>1, <2>2, SpanIs
  <2>4. PICK a : a = raw \div s
    OBVIOUS
  <2>5. raw \div (256 * s) = a \div 256
    <3>1. raw \in Int /\ s \in Nat \ {0} /\ a = raw \div s
      BY <2>3, <2>4
    <3> QED
      BY ONLY <3>1
  <2>6. 256 * ((a \div 256) % t) + (a % 256) = a % (256 * t)
    <3>1. raw \in Int /\ s \in Nat \ {0} /\ t \in Nat \ {0} /\ a = raw \div s
      BY <2>3, <2>4
    <3> QED
      BY ONLY <3>1, NextByte, SMT
  <2>7. c[i] = a % (256 * t)
    BY <1>2, <2>1, <2>2, <2>3, <2>4
  <2>8. c[i - 1] = (a \div 256) % t
    BY <1>2, <2>1, <2>2, <2>3, <2>5
  <2> QED
    BY <2>2, <2>4, <2>6, <2>7, <2>8
<1> QED
  BY <1>1, <1>3, <1>4, <1>5 DEF ByteOf, Rest

(* The function that RawValue sums the bytes w with.                        *)
Summed(sum, w, n) == sum = [i \in 0..n |-> IF i = 0 THEN 0 ELSE 256 * sum[i - 1] + w[i]]

(* What the recursive sum of RawValue comes to: there is such a function ... *)
LEMMA SumExists ==
  ASSUME NEW raw \in Int, NEW n \in Nat, NEW w,
         \A i \in 1..n : w[i] = ByteOf(raw, n, i)
  PROVE  \E c : Summed(c, w, n)
<1>1. PICK c : c = Taken(raw, n)
  OBVIOUS
<1>2. c[0] = 0 /\ c[n] = Rest(raw, n) /\ \A i \in 1..n : c[i] = 256 * c[i - 1] + w[i]
  <2>1. /\ c[0] = 0 /\ c[n] = Rest(raw, n)
        /\ \A i \in 1..n : c[i] = 256 * c[i - 1] + ByteOf(raw, n, i)
    BY <1>1, TakenNext
  <2> QED
    BY ONLY <2>1, \A i \in 1..n : w[i] = ByteOf(raw, n, i)
<1>3. c = [i \in 0..n |-> c[i]]
  BY <1>1 DEF Taken
<1>4. \A i \in 0..n : i = 0 \/ i \in 1..n
  OBVIOUS
<1>5. \A i \in 0..n : c[i] = IF i = 0 THEN 0 ELSE 256 * c[i - 1] + w[i]
  BY <1>2, <1>4
<1>6. Summed(c, w, n)
  BY <1>3, <1>5 DEF Summed
<1> QED
  BY <1>6

(* ... and it ends in the lower n bytes of raw.                             *)
LEMMA SumIs ==
  ASSUME NEW raw \in Int, NEW n \in Nat, NEW w,
         \A i \in 1..n : w[i] = ByteOf(raw, n, i),
         NEW sum, Summed(sum, w, n)
  PROVE  sum[n] = Rest(raw, n)
<1>1. PICK c : c = Taken(raw, n)
  OBVIOUS
<1>2. c[0] = 0 /\ c[n] = Rest(raw, n) /\ \A i \in 1..n : c[i] = 256 * c[i - 1] + w[i]
  <2>1. /\ c[0] = 0 /\ c[n] = Rest(raw, n)
        /\ \A i \in 1..n : c[i] = 256 * c[i - 1] + ByteOf(raw, n, i)
    BY <1>1, TakenNext
  <2> QED
    BY ONLY <2>1, \A i \in 1..n : w[i] = ByteOf(raw, n, i)
<1>3. sum[0] = 0 /\ \A i \in 1..n : sum[i] = 256 * sum[i - 1] + w[i]
  <2>1. \A i \in 0..n : sum[i] = IF i = 0 THEN 0 ELSE 256 * sum[i - 1] + w[i]
    BY DEF Summed
  <2> QED
    BY <2>1
<1> DEFINE Done == {i \in Nat : i <= n => sum[i] = c[i]}
<1>4. Done = Nat
  <2>1. Done \in SUBSET Nat /\ 0 \in Done
    BY <1>2, <1>3
  <2>2. ASSUME NEW i \in Done
        PROVE  i + 1 \in Done
    <3> SUFFICES ASSUME i + 1 <= n PROVE sum[i + 1] = c[i + 1]
      OBVIOUS
    <3>1. i <= n /\ i + 1 \in 1..n /\ (i + 1) - 1 = i
      OBVIOUS
    <3>2. sum[i] = c[i]
      BY <3>1
    <3> QED
      BY <1>2, <1>3, <3>1, <3>2
  <2> HIDE DEF Done
  <2> QED
    BY <2>1, <2>2, SetInduction
<1> QED
  <2>1. n \in Done
    BY <1>4
  <2> QED
    BY <1>2, <2>1

-----------------------------------------------------------------------------
(* A field and its bytes.                                                   *)

(* Reversed twice is as before.                                             *)
LEMMA ReverseTwice ==
  ASSUME NEW n \in Nat, NEW w \in Seq(Int), Len(w) = n
  PROVE  /\ Reverse(w) \in Seq(Int) /\ Len(Reverse(w)) = n
         /\ Reverse(Reverse(w)) = w
<1> DEFINE r == [i \in 1..n |-> w[(n - i) + 1]]
<1>1. Reverse(w) = r
  BY DEF Reverse
<1>2. \A i \in 1..n : (n - i) + 1 \in 1..n /\ (n - ((n - i) + 1)) + 1 = i
  OBVIOUS
<1>3. \A i \in 1..n : w[i] \in Int
  OBVIOUS
<1>4. r \in Seq(Int) /\ Len(r) = n /\ \A i \in 1..n : r[i] = w[(n - i) + 1]
  BY <1>2, <1>3
<1> HIDE DEF r
<1>5. Reverse(r) = [i \in 1..n |-> r[(n - i) + 1]]
  BY <1>4 DEF Reverse
<1>6. \A i \in 1..n : r[(n - i) + 1] = w[i]
  BY <1>2, <1>4
<1>7. w = [i \in 1..n |-> w[i]]
  OBVIOUS
<1>8. Reverse(r) = w
  BY <1>5, <1>6, <1>7
<1> QED
  BY <1>1, <1>4, <1>8

(* What RawBytes is of, and in which order from_bytes reads it.             *)
LEMMA BytesOrdered ==
  ASSUME NEW f \in Field, NEW raw \in Int
  PROVE  /\ RawBytes(f, raw) \in Seq(Int) /\ Len(RawBytes(f, raw)) = f.length
         /\ IsFloat(f) => RawBytes(f, raw)[1] = raw
         /\ ~IsFloat(f) => \A i \in 1..f.length :
              Ordered(f, RawBytes(f, raw))[i] = ByteOf(raw, f.length, i)
<1> DEFINE n == f.length
           w == [i \in 1..n |-> ByteOf(raw, n, i)]
<1>0. n \in Nat \ {0}
  BY DEF Field
<1>1. CASE IsFloat(f)
  <2>1. RawBytes(f, raw) = [i \in 1..n |-> raw]
    BY <1>1 DEF RawBytes
  <2> QED
    BY <1>0, <1>1, <2>1
<1>2. CASE ~IsFloat(f)
  <2>1. RawBytes(f, raw) = Ordered(f, w)
    BY <1>2 DEF RawBytes, ByteOf
  <2>2. \A i \in 1..n : ByteOf(raw, n, i) \in Int
    <3>1. ASSUME NEW i \in 1..n
          PROVE  ByteOf(raw, n, i) \in Int
      <4>1. PICK s : s = Span(n - i)
        OBVIOUS
      <4>2. s \in Nat \ {0}
        BY <1>0, <4>1, SpanIs
      <4>3. raw \div s \in Int
        BY <4>2, Division
      <4> QED
        BY <4>1, <4>3 DEF ByteOf
    <3> QED
      BY <3>1
  <2>3. w \in Seq(Int) /\ Len(w) = n /\ \A i \in 1..n : w[i] = ByteOf(raw, n, i)
    BY <1>0, <2>2
  <2> HIDE DEF w
  <2>4. Ordered(f, w) \in Seq(Int) /\ Len(Ordered(f, w)) = n /\ Ordered(f, Ordered(f, w)) = w
    <3>1. n \in Nat
      BY <1>0
    <3>2. Reverse(w) \in Seq(Int) /\ Len(Reverse(w)) = n /\ Reverse(Reverse(w)) = w
      BY <2>3, <3>1, ReverseTwice
    <3> QED
      BY <2>3, <3>2 DEF Ordered
  <2> QED
    BY <1>2, <2>1, <2>3, <2>4
<1> QED
  BY <1>1, <1>2

(* signal_codec.py _pack_integer, _unpack_integer and the two of floats: a   *)
(* raw value that the field takes is unpacked as it was packed.             *)
LEMMA RawRoundTrip ==
  ASSUME NEW f \in Field, NEW raw \in Int, InRange(f, raw)
  PROVE  RawValue(f, RawBytes(f, raw)) = raw
<1> DEFINE n == f.length
<1>0. n \in Nat \ {0} /\ f.type \in {"uint", "int", "float"}
  BY DEF Field
<1>1. PICK bytes : bytes = RawBytes(f, raw)
  OBVIOUS
<1>2. CASE IsFloat(f)
  BY <1>2, BytesOrdered DEF RawValue
<1>3. CASE ~IsFloat(f)
  <2> DEFINE w == Ordered(f, bytes)
             Step(u) == [i \in 0..n |-> IF i = 0 THEN 0 ELSE 256 * u[i - 1] + w[i]]
             sums == CHOOSE u : u = Step(u)
             sum == sums[n]
  <2>1. RawValue(f, bytes) = IF sum \in RawRange(f) THEN sum ELSE sum - Span(n)
    BY <1>3 DEF RawValue
  <2>2. \A i \in 1..n : w[i] = ByteOf(raw, n, i)
    BY <1>1, <1>3, BytesOrdered
  <2>3. n \in Nat
    BY <1>0
  <2> HIDE DEF w, n
  <2>4. sum = Rest(raw, n)
    <3>1. \E c : Summed(c, w, n)
      BY <2>2, <2>3, SumExists
    <3>2. \E c : c = Step(c)
      BY <3>1 DEF Summed
    <3>3. sums = Step(sums)
      BY <3>2, Zenon
    <3>4. Summed(sums, w, n)
      BY <3>3 DEF Summed
    <3> HIDE DEF sums
    <3> QED
      BY <2>2, <2>3, <3>4, SumIs
  <2> HIDE DEF sum
  <2>5. PICK s : s = Span(n)
    OBVIOUS
  <2>6. PICK half : half = Two[8 * n - 1]
    OBVIOUS
  <2>7. s = 2 * half /\ half \in Nat \ {0} /\ s \in Nat \ {0}
    <3>1. 8 * n - 1 \in Nat /\ (8 * n - 1) + 1 = 8 * n
      BY <1>0 DEF n
    <3>2. Two[8 * n] = 2 * Two[8 * n - 1] /\ Two[8 * n - 1] \in Nat \ {0}
      BY <3>1, TwoIs
    <3> QED
      BY <2>5, <2>6, <3>2 DEF Span
  <2>8. RawRange(f) = IF f.type = "uint" THEN 0..(s - 1) ELSE (-half)..(half - 1)
    BY <2>5, <2>6 DEF RawRange, n
  <2>9. raw \in RawRange(f)
    BY <1>3 DEF InRange
  <2>10. CASE raw >= 0
    <3>1. raw < s
      BY <2>7, <2>8, <2>9, <2>10
    <3>2. raw % s = raw
      <4>1. raw \in Nat /\ 0 \in Int /\ raw = s * 0 + raw
        BY <2>7, <2>10
      <4> QED
        BY <2>7, <3>1, <4>1, DivisionUnique
    <3> QED
      BY <1>1, <2>1, <2>4, <2>5, <2>9, <3>2 DEF Rest
  <2>11. CASE raw < 0
    <3>1. f.type # "uint" /\ -half <= raw
      BY <2>7, <2>8, <2>9, <2>11
    <3>2. raw % s = raw + s
      <4>1. raw + s \in Nat /\ raw + s < s /\ -1 \in Int /\ raw = s * (-1) + (raw + s)
        BY <2>7, <2>11, <3>1
      <4> QED
        BY <2>7, <4>1, DivisionUnique
    <3>3. raw + s \notin RawRange(f)
      BY <2>7, <2>8, <3>1
    <3> QED
      BY <1>1, <2>1, <2>4, <2>5, <2>7, <3>2, <3>3 DEF Rest
  <2> QED
    BY <2>10, <2>11
<1> QED
  BY <1>2, <1>3


(* SignalLayout of one field: what is before the field does not matter.      *)
LEMMA PackRoundTrip ==
  ASSUME NEW f \in Field, NEW raw \in Int, InRange(f, raw)
  PROVE  Unpack(f, Pack(f, raw)) = raw
<1>1. PICK bytes, zeros, n, k :
        /\ bytes = RawBytes(f, raw) /\ zeros = [i \in 1..k |-> 0]
        /\ n = f.length /\ k = f.offset
  OBVIOUS
<1>2. n \in Nat /\ k \in Nat /\ k + n \in Nat
  BY <1>1 DEF Field
<1>3. bytes \in Seq(Int) /\ Len(bytes) = n
  BY <1>1, BytesOrdered
<1>4. zeros \in Seq(Int) /\ Len(zeros) = k
  BY <1>1, <1>2
<1>5. PICK payload : payload = zeros \o bytes
  OBVIOUS
<1>6. /\ payload \in Seq(Int) /\ Len(payload) = k + n
      /\ \A i \in 1..n : payload[k + i] = bytes[i]
  <2>1. payload \in Seq(Int) /\ Len(payload) = k + n
    <3>1. Len(zeros \o bytes) = Len(zeros) + Len(bytes) /\ zeros \o bytes \in Seq(Int)
      BY <1>3, <1>4
    <3> QED
      BY <1>3, <1>4, <1>5, <3>1
  <2>2. ASSUME NEW i \in 1..n
        PROVE  payload[k + i] = bytes[i]
    <3>1. k + i \in 1..(k + n) /\ ~(k + i <= k) /\ (k + i) - k = i /\ k + i \in 1..(Len(zeros) + Len(bytes))
      BY <1>2, <1>3, <1>4
    <3>2. (zeros \o bytes)[k + i] = bytes[(k + i) - Len(zeros)]
      BY <1>3, <1>4, <3>1
    <3> QED
      BY <1>4, <1>5, <3>1, <3>2
  <2> QED
    BY <2>1, <2>2
<1>7. SubSeq(payload, k + 1, k + n) = bytes
  <2>1. SubSeq(payload, k + 1, k + n) = [i \in 1..n |-> payload[(i + (k + 1)) - 1]]
    BY <1>2, <1>6
  <2>2. \A i \in 1..n : payload[(i + (k + 1)) - 1] = bytes[i]
    <3>1. \A i \in 1..n : (i + (k + 1)) - 1 = k + i
      BY <1>2
    <3> QED
      BY <1>6, <3>1
  <2>3. bytes = [i \in 1..n |-> bytes[i]]
    BY <1>3
  <2> QED
    BY <2>1, <2>2, <2>3
<1>8. Pack(f, raw) = payload
  BY <1>1, <1>5 DEF Pack
<1>9. Unpack(f, payload) = RawValue(f, bytes)
  BY <1>1, <1>7 DEF Unpack
<1> QED
  BY <1>1, <1>8, <1>9, RawRoundTrip

-----------------------------------------------------------------------------
(* Rounding to an integer.                                                   *)

(* No other integer is more than half a unit nearer.                         *)
LEMMA NearestIs ==
  ASSUME NEW p \in Int, NEW q \in Nat \ {0}, NEW n, n = Nearest[<<p, q>>]
  PROVE  n \in Int /\ q * n \in Int /\ 2 * p - q <= 2 * (q * n) /\ 2 * (q * n) <= 2 * p + q
<1>1. PICK low, rest : low = p \div q /\ rest = p % q
  OBVIOUS
<1>2. low \in Int /\ rest \in Nat /\ rest < q /\ q * low \in Int /\ p = q * low + rest
  BY <1>1, Division
<1>3. n = IF 2 * rest < q \/ (2 * rest = q /\ low % 2 = 0) THEN low ELSE low + 1
  BY <1>1 DEF Nearest, Ratio
<1>4. CASE 2 * rest < q \/ (2 * rest = q /\ low % 2 = 0)
  <2>1. n = low /\ 2 * rest <= q
    BY <1>2, <1>3, <1>4
  <2> QED
    BY <1>2, <2>1
<1>5. CASE ~(2 * rest < q \/ (2 * rest = q /\ low % 2 = 0))
  <2>1. n = low + 1 /\ 2 * rest >= q
    BY <1>2, <1>3, <1>5
  <2>2. q * (low + 1) = q * low + q
    BY <1>2
  <2> QED
    BY <1>2, <2>1, <2>2
<1> QED
  BY <1>4, <1>5

(* Counts of q parts less than q apart are in order.                         *)
LEMMA CountsOrdered ==
  ASSUME NEW q \in Nat \ {0}, NEW a \in Int, NEW b \in Int, q * a < q * b + q
  PROVE  a <= b
<1> SUFFICES ASSUME a >= b + 1 PROVE FALSE
  OBVIOUS
<1>1. q * a >= q * (b + 1)
  OBVIOUS
<1>2. q * (b + 1) = q * b + q /\ q * a \in Int /\ q * b \in Int
  OBVIOUS
<1> QED
  BY <1>1, <1>2

(* Rounding keeps the order, ...                                             *)
LEMMA NearestMonotone ==
  ASSUME NEW p \in Int, NEW r \in Int, p <= r, NEW q \in Nat \ {0}
  PROVE  Nearest[<<p, q>>] <= Nearest[<<r, q>>]
<1>1. PICK m, n : m = Nearest[<<p, q>>] /\ n = Nearest[<<r, q>>]
  OBVIOUS
<1>2. /\ m \in Int /\ q * m \in Int /\ 2 * (q * m) <= 2 * p + q
      /\ n \in Int /\ q * n \in Int /\ 2 * r - q <= 2 * (q * n)
  BY <1>1, NearestIs
<1>3. CASE p = r
  BY <1>1, <1>2, <1>3
<1>4. CASE p < r
  <2>1. q * m < q * n + q
    BY <1>2, <1>4
  <2> QED
    BY <1>1, <1>2, <2>1, CountsOrdered
<1> QED
  BY <1>3, <1>4

(* ... and does not pass an integer.                                         *)
LEMMA NearestBetween ==
  ASSUME NEW p \in Int, NEW q \in Nat \ {0}, NEW m \in Int
  PROVE  /\ p <= q * m => Nearest[<<p, q>>] <= m
         /\ q * m <= p => m <= Nearest[<<p, q>>]
<1>1. PICK n : n = Nearest[<<p, q>>]
  OBVIOUS
<1>2. n \in Int /\ q * n \in Int /\ 2 * p - q <= 2 * (q * n) /\ 2 * (q * n) <= 2 * p + q
  BY <1>1, NearestIs
<1>3. q * m \in Int
  OBVIOUS
<1>4. ASSUME p <= q * m PROVE n <= m
  <2>1. q * n < q * m + q
    BY <1>2, <1>3, <1>4
  <2> QED
    BY <1>2, <2>1, CountsOrdered
<1>5. ASSUME q * m <= p PROVE m <= n
  <2>1. q * m < q * n + q
    BY <1>2, <1>3, <1>5
  <2> QED
    BY <1>2, <2>1, CountsOrdered
<1> QED
  BY <1>1, <1>4, <1>5

-----------------------------------------------------------------------------
(* The formats of binary numbers.                                            *)
Formats == {Single, Double}

(* Where the numbers of F spaced least * 2^k end, as a count of 1 / q parts. *)
Top(F, q, k) == q * (F.precision * (F.least * Two[k]))

LEMMA FormatIs ==
  ASSUME NEW F \in Formats
  PROVE  /\ F.precision \in Nat \ {0} /\ F.least \in Nat \ {0}
         /\ \E half \in Nat \ {0} : F.precision = 2 * half
<1>1. F.precision \in Nat \ {0} /\ F.least \in Nat \ {0} /\ F.precision % 2 = 0
  BY CodecAssumption DEF Formats, Format
<1>2. PICK half : half = F.precision \div 2
  OBVIOUS
<1>3. half \in Nat \ {0} /\ F.precision = 2 * half
  BY <1>1, <1>2
<1> QED
  BY <1>1, <1>3

LEMMA TopIs ==
  ASSUME NEW F \in Formats, NEW q \in Nat \ {0}, NEW k \in Nat
  PROVE  /\ Top(F, q, k) \in Nat \ {0} /\ Top(F, q, k + 1) = 2 * Top(F, q, k)
<1>1. PICK p, l, t : p = F.precision /\ l = F.least /\ t = Two[k]
  OBVIOUS
<1>2. p \in Nat \ {0} /\ l \in Nat \ {0} /\ t \in Nat \ {0} /\ Two[k + 1] = 2 * t
  BY <1>1, FormatIs, TwoIs
<1>3. l * t \in Nat \ {0} /\ l * (2 * t) = 2 * (l * t)
  BY <1>2
<1>4. PICK a : a = l * t
  OBVIOUS
<1>5. a \in Nat \ {0} /\ p * a \in Nat \ {0} /\ p * (2 * a) = 2 * (p * a)
  BY <1>2, <1>3, <1>4
<1>6. PICK b : b = p * a
  OBVIOUS
<1>7. b \in Nat \ {0} /\ q * b \in Nat \ {0} /\ q * (2 * b) = 2 * (q * b)
  BY <1>5, <1>6
<1>8. Top(F, q, k) = q * b /\ Top(F, q, k + 1) = q * (2 * b)
  BY <1>1, <1>2, <1>3, <1>4, <1>5, <1>6 DEF Top
<1> QED
  BY <1>7, <1>8

(* Tops grow, and beyond every bound.                                        *)
LEMMA TopGrows ==
  ASSUME NEW F \in Formats, NEW q \in Nat \ {0}
  PROVE  /\ \A k \in Nat : k < Top(F, q, k)
         /\ \A j, k \in Nat : j <= k => Top(F, q, j) <= Top(F, q, k)
<1> DEFINE Beyond == {k \in Nat : k < Top(F, q, k)}
<1>1. Beyond = Nat
  <2>1. Beyond \in SUBSET Nat /\ 0 \in Beyond
    BY TopIs
  <2>2. ASSUME NEW k \in Beyond
        PROVE  k + 1 \in Beyond
    BY TopIs
  <2> HIDE DEF Beyond
  <2> QED
    BY <2>1, <2>2, SetInduction
<1>2. ASSUME NEW j \in Nat
      PROVE  \A k \in Nat : j <= k => Top(F, q, j) <= Top(F, q, k)
  <2> DEFINE Above == {k \in Nat : j <= k => Top(F, q, j) <= Top(F, q, k)}
  <2>1. Above \in SUBSET Nat /\ 0 \in Above
    <3>1. j <= 0 => j = 0
      OBVIOUS
    <3> QED
      BY <3>1, TopIs
  <2>2. ASSUME NEW k \in Above
        PROVE  k + 1 \in Above
    <3>1. k \in Nat /\ k + 1 \in Nat
      OBVIOUS
    <3>2. Top(F, q, k) \in Nat /\ Top(F, q, j) \in Nat /\ Top(F, q, k + 1) = 2 * Top(F, q, k)
      BY <3>1, TopIs
    <3>3. CASE j = k + 1
      BY <3>1, <3>2, <3>3
    <3>4. CASE j <= k
      <4>1. Top(F, q, j) <= Top(F, q, k)
        BY <3>4
      <4> QED
        BY <3>1, <3>2, <4>1
    <3>5. j <= k + 1 => j = k + 1 \/ j <= k
      BY <3>1
    <3> QED
      BY <3>1, <3>3, <3>4, <3>5
  <2>3. Above = Nat
    <3> HIDE DEF Above
    <3> QED
      BY <2>1, <2>2, SetInduction
  <2> QED
    BY <2>3
<1> QED
  BY <1>1, <1>2

(* The exponent is the least one whose numbers reach p / q.                  *)
LEMMA ExponentIs ==
  ASSUME NEW F \in Formats, NEW p \in Nat, NEW q \in Nat \ {0},
         NEW e, e = Exponent(F, p, q)
  PROVE  /\ e \in Nat /\ p < Top(F, q, e)
         /\ e = 0 \/ (e - 1 \in Nat /\ Top(F, q, e - 1) <= p)
<1> DEFINE Fits1(k) == p < Top(F, q, k) /\ (k = 0 \/ Top(F, q, k - 1) <= p)
<1>1. \E k \in 0..p : Fits1(k)
  <2> SUFFICES ASSUME \A k \in 0..p : ~Fits1(k) PROVE FALSE
    OBVIOUS
  <2> DEFINE Short == {k \in Nat : Top(F, q, k) <= p}
  <2>1. 0 \in Short
    <3>1. ~Fits1(0)
      OBVIOUS
    <3> QED
      BY <3>1, TopIs
  <2>2. ASSUME NEW k \in Short
        PROVE  k + 1 \in Short
    <3>1. k \in Nat /\ k + 1 \in Nat /\ (k + 1) - 1 = k
      OBVIOUS
    <3>2. k < Top(F, q, k) /\ Top(F, q, k) <= p
      BY TopGrows
    <3>3. Top(F, q, k) \in Nat /\ Top(F, q, k + 1) \in Nat
      BY <3>1, TopIs
    <3>4. k + 1 \in 0..p
      BY <3>1, <3>2, <3>3
    <3>5. ~Fits1(k + 1)
      BY <3>4
    <3> QED
      BY <3>1, <3>2, <3>3, <3>5
  <2>3. Short = Nat
    <3>1. Short \in SUBSET Nat
      OBVIOUS
    <3> HIDE DEF Short
    <3> QED
      BY <2>1, <2>2, <3>1, SetInduction
  <2>4. Top(F, q, p) <= p
    BY <2>3
  <2>5. p < Top(F, q, p) /\ Top(F, q, p) \in Nat
    BY TopGrows, TopIs
  <2> QED
    BY <2>4, <2>5
<1>2. e = CHOOSE k \in 0..p : Fits1(k)
  BY DEF Exponent, Top
<1>3. e \in 0..p /\ Fits1(e)
  BY <1>1, <1>2
<1>4. e \in Nat /\ (e = 0 \/ e - 1 \in Nat)
  BY <1>3
<1> QED
  BY <1>3, <1>4
-----------------------------------------------------------------------------
(* Rounding to a format.                                                     *)

(* A number is its count of steps; the step is the least one or the count is *)
(* at least half the precision.                                              *)
LEMMA SpacingIs ==
  ASSUME NEW F \in Formats, NEW p \in Int, NEW q \in Nat \ {0},
         NEW half \in Nat \ {0}, F.precision = 2 * half,
         NEW s, s = Spacing(F, p, q)
  PROVE  /\ s \in Nat \ {0} /\ q * s \in Nat \ {0}
         /\ Magnitude(p) < (q * s) * (2 * half)
         /\ s = F.least \/ (q * s) * half <= Magnitude(p)
<1>1. PICK e, m, l : e = Exponent(F, Magnitude(p), q) /\ m = Magnitude(p) /\ l = F.least
  OBVIOUS
<1>2. m \in Nat
  BY <1>1 DEF Magnitude
<1>3. /\ e \in Nat /\ m < Top(F, q, e)
      /\ e = 0 \/ (e - 1 \in Nat /\ Top(F, q, e - 1) <= m)
  BY <1>1, <1>2, ExponentIs
<1>4. PICK t : t = Two[e]
  OBVIOUS
<1>5. l \in Nat \ {0} /\ t \in Nat \ {0} /\ s = l * t
  BY <1>1, <1>3, <1>4, FormatIs, TwoIs DEF Spacing
<1>6. s \in Nat \ {0}
  BY <1>5
<1>7. q * s \in Nat \ {0}
  BY <1>6
<1>8. \A x \in Nat : q * ((2 * half) * x) = (q * x) * (2 * half)
  OBVIOUS
<1>9. Top(F, q, e) = (q * s) * (2 * half)
  BY <1>1, <1>4, <1>5, <1>6, <1>8 DEF Top
<1>10. CASE e = 0
  <2>1. t = 1
    BY <1>4, <1>10, TwoIs
  <2>2. s = l
    BY <1>5, <2>1
  <2> QED
    BY <1>1, <1>3, <1>6, <1>7, <1>9, <2>2
<1>11. CASE e - 1 \in Nat /\ Top(F, q, e - 1) <= m
  <2>1. (e - 1) + 1 = e
    BY <1>3
  <2>2. Top(F, q, e) = 2 * Top(F, q, e - 1) /\ Top(F, q, e - 1) \in Nat
    BY <1>11, <2>1, TopIs
  <2>3. (q * s) * (2 * half) = 2 * ((q * s) * half) /\ (q * s) * half \in Nat
    BY <1>7
  <2>4. (q * s) * half = Top(F, q, e - 1)
    BY <1>9, <2>2, <2>3
  <2> QED
    BY <1>1, <1>3, <1>6, <1>7, <1>9, <1>11, <2>4
<1> QED
  BY <1>3, <1>10, <1>11

(* A larger number is not more finely spaced.                                *)
LEMMA SpacingMonotone ==
  ASSUME NEW F \in Formats, NEW p \in Int, NEW r \in Int, NEW q \in Nat \ {0},
         Magnitude(p) <= Magnitude(r),
         NEW s, s = Spacing(F, p, q), NEW t, t = Spacing(F, r, q)
  PROVE  s = t \/ (2 * s <= t /\ t # F.least)
<1>1. PICK d, e : d = Exponent(F, Magnitude(p), q) /\ e = Exponent(F, Magnitude(r), q)
  OBVIOUS
<1>2. Magnitude(p) \in Nat /\ Magnitude(r) \in Nat
  BY DEF Magnitude
<1>3. /\ d \in Nat
      /\ d = 0 \/ (d - 1 \in Nat /\ Top(F, q, d - 1) <= Magnitude(p))
      /\ e \in Nat /\ Magnitude(r) < Top(F, q, e)
  BY <1>1, <1>2, ExponentIs
<1>4. d <= e
  <2> SUFFICES ASSUME e < d PROVE FALSE
    BY <1>3
  <2>1. d - 1 \in Nat /\ e <= d - 1 /\ Top(F, q, d - 1) <= Magnitude(p)
    BY <1>3
  <2>2. Top(F, q, e) <= Top(F, q, d - 1)
    BY <1>3, <2>1, TopGrows
  <2>3. Top(F, q, e) \in Nat /\ Top(F, q, d - 1) \in Nat
    BY <1>3, <2>1, TopIs
  <2> QED
    BY <1>2, <1>3, <2>1, <2>2, <2>3
<1>5. PICK l : l = F.least
  OBVIOUS
<1>6. l \in Nat \ {0} /\ s = l * Two[d] /\ t = l * Two[e]
  BY <1>1, <1>5, FormatIs DEF Spacing
<1>7. CASE d = e
  BY <1>6, <1>7
<1>8. CASE d < e
  <2> DEFINE Above == {k \in Nat : d < k => 2 * (l * Two[d]) <= l * Two[k] /\ l * Two[k] # l}
  <2>1. Above \in SUBSET Nat /\ 0 \in Above
    BY <1>3
  <2>2. ASSUME NEW k \in Above
        PROVE  k + 1 \in Above
    <3>1. k \in Nat /\ k + 1 \in Nat
      OBVIOUS
    <3>2. PICK x, y : x = l * Two[d] /\ y = l * Two[k]
      OBVIOUS
    <3>3. Two[d] \in Nat \ {0} /\ Two[k] \in Nat \ {0} /\ Two[k + 1] = 2 * Two[k]
      BY <1>3, <3>1, TwoIs
    <3>4. x \in Nat \ {0} /\ y \in Nat \ {0} /\ l * Two[k + 1] = 2 * y /\ l <= y
      <4>1. PICK a, b : a = Two[d] /\ b = Two[k]
        OBVIOUS
      <4>2. a \in Nat \ {0} /\ b \in Nat \ {0} /\ Two[k + 1] = 2 * b /\ l \in Nat \ {0}
        BY <1>6, <3>3, <4>1
      <4>3. /\ l * a \in Nat \ {0} /\ l * b \in Nat \ {0} /\ l * (2 * b) = 2 * (l * b)
            /\ l * 1 <= l * b
        BY <4>2
      <4> QED
        BY <3>2, <4>1, <4>2, <4>3
    <3>5. CASE d = k
      <4>1. x = y
        BY <3>2, <3>5
      <4> QED
        BY <1>6, <3>1, <3>2, <3>4, <4>1
    <3>6. CASE d < k
      <4>1. 2 * x <= y
        BY <3>2, <3>6
      <4> QED
        BY <1>6, <3>1, <3>2, <3>4, <4>1
    <3>7. d < k + 1 => d = k \/ d < k
      BY <1>3, <3>1
    <3> QED
      BY <3>1, <3>5, <3>6, <3>7
  <2>3. Above = Nat
    <3> HIDE DEF Above
    <3> QED
      BY <2>1, <2>2, SetInduction
  <2> QED
    BY <1>3, <1>5, <1>6, <1>8, <2>3
<1> QED
  BY <1>3, <1>4, <1>7, <1>8

(* A rounded number is not more than half a step away, whatever is rounded.  *)
LEMMA RoundedIs ==
  ASSUME NEW F \in Formats, NEW p \in Int, NEW q \in Nat \ {0},
         NEW n, n = Rounded(F)[<<p, q>>], NEW s, s = Spacing(F, p, q)
  PROVE  /\ n \in Int /\ q * n \in Int
         /\ s \in Nat /\ q * s \in Nat
         /\ 2 * p - q * s <= 2 * (q * n) /\ 2 * (q * n) <= 2 * p + q * s
<1>1. PICK half \in Nat \ {0} : F.precision = 2 * half
  BY FormatIs
<1>2. s \in Nat \ {0} /\ q * s \in Nat \ {0}
  BY <1>1, SpacingIs
<1>3. PICK m, w : m = Nearest[<<p, w>>] /\ w = q * s
  OBVIOUS
<1>4. m \in Int /\ w * m \in Int /\ 2 * p - w <= 2 * (w * m) /\ 2 * (w * m) <= 2 * p + w
  BY <1>2, <1>3, NearestIs
<1>5. n = s * m
  BY <1>3 DEF Rounded, Ratio
<1>6. n \in Int /\ q * n = w * m
  BY <1>2, <1>3, <1>4, <1>5
<1> QED
  BY <1>2, <1>3, <1>4, <1>6

(* Rounding keeps the order, also where the step changes.                    *)
LEMMA RoundedMonotone ==
  ASSUME NEW F \in Formats, NEW p \in Int, NEW r \in Int, p <= r, NEW q \in Nat \ {0}
  PROVE  /\ Rounded(F)[<<p, q>>] \in Int /\ Rounded(F)[<<r, q>>] \in Int
         /\ Rounded(F)[<<p, q>>] <= Rounded(F)[<<r, q>>]
<1>1. PICK half \in Nat \ {0} : F.precision = 2 * half
  BY FormatIs
<1>2. PICK s, t : s = Spacing(F, p, q) /\ t = Spacing(F, r, q)
  OBVIOUS
<1>3. PICK v, w : v = q * s /\ w = q * t
  OBVIOUS
<1>4. /\ s \in Nat \ {0} /\ v \in Nat \ {0} /\ Magnitude(p) < v * (2 * half)
      /\ s = F.least \/ v * half <= Magnitude(p)
  BY <1>1, <1>2, <1>3, SpacingIs
<1>5. /\ t \in Nat \ {0} /\ w \in Nat \ {0} /\ Magnitude(r) < w * (2 * half)
      /\ t = F.least \/ w * half <= Magnitude(r)
  BY <1>1, <1>2, <1>3, SpacingIs
<1>6. PICK m, n : m = Nearest[<<p, v>>] /\ n = Nearest[<<r, w>>]
  OBVIOUS
<1>7. m \in Int /\ n \in Int
  BY <1>4, <1>5, <1>6, NearestIs
<1>8. Rounded(F)[<<p, q>>] = s * m /\ Rounded(F)[<<r, q>>] = t * n
  BY <1>2, <1>3, <1>6 DEF Rounded, Ratio
<1>9. s * m \in Int /\ t * n \in Int
  BY <1>4, <1>5, <1>7
<1>10. s * m <= t * n
  <2>1. CASE s = t
    <3>1. m <= n
      BY <1>3, <1>4, <1>6, <2>1, NearestMonotone
    <3> QED
      BY <1>4, <1>7, <2>1, <3>1
  <2>2. CASE s # t /\ 0 <= p
    <3>1. Magnitude(p) = p /\ Magnitude(r) = r
      BY <2>2 DEF Magnitude
    <3>2. 2 * s <= t /\ t # F.least
      BY <1>2, <2>2, <3>1, SpacingMonotone
    <3>3. m <= 2 * half
      <4>1. p <= v * (2 * half) /\ 2 * half \in Int
        BY <1>4, <3>1
      <4> QED
        BY <1>4, <1>6, <4>1, NearestBetween
    <3>4. half <= n
      <4>1. w * half <= r /\ half \in Int
        BY <1>5, <3>1, <3>2
      <4> QED
        BY <1>5, <1>6, <4>1, NearestBetween
    <3>5. s * m <= s * (2 * half)
      BY <1>4, <1>7, <3>3
    <3>6. s * (2 * half) = (2 * s) * half /\ (2 * s) * half \in Int
      BY <1>4
    <3>7. (2 * s) * half <= t * half
      BY <1>4, <1>5, <3>2
    <3>8. t * half <= t * n /\ t * half \in Int
      BY <1>5, <1>7, <3>4
    <3> QED
      BY <1>9, <3>5, <3>6, <3>7, <3>8
  <2>3. CASE s # t /\ r <= 0
    <3>1. Magnitude(p) = -p /\ Magnitude(r) = -r
      BY <2>3 DEF Magnitude
    <3>2. 2 * t <= s /\ s # F.least
      <4>1. Magnitude(r) <= Magnitude(p)
        BY <3>1
      <4> QED
        BY <1>2, <2>3, <4>1, SpacingMonotone
    <3>3. m <= -half
      <4>1. v * half <= -p
        BY <1>4, <3>1, <3>2
      <4>2. v * (-half) = -(v * half) /\ v * half \in Int /\ -half \in Int
        BY <1>4
      <4>3. p <= v * (-half)
        BY <4>1, <4>2
      <4> QED
        BY <1>4, <1>6, <4>2, <4>3, NearestBetween
    <3>4. -(2 * half) <= n
      <4>1. w * (-(2 * half)) = -(w * (2 * half)) /\ w * (2 * half) \in Int /\ -(2 * half) \in Int
        BY <1>5
      <4>2. w * (-(2 * half)) <= r
        BY <1>5, <3>1, <4>1
      <4> QED
        BY <1>5, <1>6, <4>1, <4>2, NearestBetween
    <3>5. s * m <= s * (-half)
      <4>1. -half \in Int
        OBVIOUS
      <4> QED
        BY <1>4, <1>7, <3>3, <4>1
    <3>6. t * (-(2 * half)) <= t * n
      <4>1. -(2 * half) \in Int
        OBVIOUS
      <4> QED
        BY <1>5, <1>7, <3>4, <4>1
    <3>7. s * (-half) = -(s * half) /\ t * (-(2 * half)) = -((2 * t) * half)
      BY <1>4, <1>5
    <3>8. (2 * t) * half <= s * half /\ (2 * t) * half \in Int /\ s * half \in Int
      BY <1>4, <1>5, <3>2
    <3> QED
      BY <1>9, <3>5, <3>6, <3>7, <3>8
  <2>4. CASE p <= 0 /\ 0 <= r
    <3>1. v * 0 = 0 /\ w * 0 = 0 /\ 0 \in Int
      BY <1>4, <1>5
    <3>2. m <= 0 /\ 0 <= n
      BY <1>4, <1>5, <1>6, <2>4, <3>1, NearestBetween
    <3>3. s * m <= 0 /\ 0 <= t * n
      BY <1>4, <1>5, <1>7, <3>2
    <3> QED
      BY <1>9, <3>3
  <2> QED
    BY <2>1, <2>2, <2>3, <2>4
<1> QED
  BY <1>8, <1>9, <1>10
-----------------------------------------------------------------------------
(* The arithmetic of the codec: its order, ...                               *)
LEMMA FloatMonotone ==
  ASSUME NEW a \in Int, NEW b \in Int, a <= b
  PROVE  Float(a) \in Int /\ Float(b) \in Int /\ Float(a) <= Float(b)
<1>1. Double \in Formats /\ 1 \in Nat \ {0}
  BY DEF Formats
<1> QED
  BY <1>1, RoundedMonotone DEF Float

LEMMA TimesMonotone ==
  ASSUME NEW a \in Int, NEW b \in Int, a <= b, NEW c \in Int \ {0}
  PROVE  /\ Times(a, c) \in Int /\ Times(b, c) \in Int
         /\ c > 0 => Times(a, c) <= Times(b, c)
         /\ c < 0 => Times(b, c) <= Times(a, c)
<1>1. Double \in Formats /\ One \in Nat \ {0}
  BY CodecAssumption DEF Formats
<1>2. PICK x, y : x = a * c /\ y = b * c
  OBVIOUS
<1>3. x \in Int /\ y \in Int /\ (c > 0 => x <= y) /\ (c < 0 => y <= x)
  <2>1. x \in Int /\ y \in Int
    BY <1>2
  <2>2. c > 0 => a * c <= b * c
    OBVIOUS
  <2>3. ASSUME c < 0 PROVE b * c <= a * c
    <3>1. PICK d : d = -c
      OBVIOUS
    <3>2. d \in Nat /\ c = -d
      BY <2>3, <3>1
    <3>3. a * d <= b * d /\ a * d \in Int /\ b * d \in Int
      BY <3>2
    <3>4. a * (-d) = -(a * d) /\ b * (-d) = -(b * d)
      BY <3>2
    <3> QED
      BY <3>2, <3>3, <3>4
  <2> QED
    BY <1>2, <2>1, <2>2, <2>3
<1>4. Times(a, c) = Rounded(Double)[<<x, One>>] /\ Times(b, c) = Rounded(Double)[<<y, One>>]
  BY <1>2 DEF Times
<1> QED
  BY <1>1, <1>3, <1>4, RoundedMonotone

(* The numerator and the denominator of a quotient.                          *)
Dividend(a, b) == IF b < 0 THEN -(a * One) ELSE a * One

LEMMA OverMonotone ==
  ASSUME NEW a \in Int, NEW b \in Int, a <= b, NEW c \in Int \ {0}
  PROVE  /\ Over(a, c) \in Int /\ Over(b, c) \in Int
         /\ c > 0 => Over(a, c) <= Over(b, c)
         /\ c < 0 => Over(b, c) <= Over(a, c)
<1>1. Double \in Formats /\ One \in Nat \ {0} /\ Magnitude(c) \in Nat \ {0}
  BY CodecAssumption DEF Formats, Magnitude
<1>2. PICK x, y, m : x = Dividend(a, c) /\ y = Dividend(b, c) /\ m = Magnitude(c)
  OBVIOUS
<1>3. x \in Int /\ y \in Int /\ (c > 0 => x <= y) /\ (c < 0 => y <= x)
  <2>1. a * One \in Int /\ b * One \in Int /\ a * One <= b * One
    BY <1>1
  <2> QED
    BY <1>2, <2>1 DEF Dividend
<1>4. Over(a, c) = Rounded(Double)[<<x, m>>] /\ Over(b, c) = Rounded(Double)[<<y, m>>]
  BY <1>2 DEF Over, Dividend
<1> QED
  BY <1>1, <1>2, <1>3, <1>4, RoundedMonotone

(* ... and its error.                                                        *)
LEMMA FloatError ==
  ASSUME NEW a \in Int, NEW s, s = Spacing(Double, a, 1)
  PROVE  /\ Float(a) \in Int /\ s \in Nat
         /\ 2 * a - s <= 2 * Float(a) /\ 2 * Float(a) <= 2 * a + s
<1>1. PICK n : n = Float(a)
  OBVIOUS
<1>2. Double \in Formats /\ 1 \in Nat \ {0} /\ n = Rounded(Double)[<<a, 1>>]
  BY <1>1 DEF Formats, Float
<1>3. /\ n \in Int /\ s \in Nat
      /\ 2 * a - 1 * s <= 2 * (1 * n) /\ 2 * (1 * n) <= 2 * a + 1 * s
  BY <1>2, RoundedIs
<1>4. 1 * s = s /\ 1 * n = n
  BY <1>3
<1> QED
  BY <1>1, <1>3, <1>4

LEMMA TimesError ==
  ASSUME NEW a \in Int, NEW c \in Int, NEW s, s = Spacing(Double, a * c, One)
  PROVE  /\ Times(a, c) \in Int /\ One * Times(a, c) \in Int /\ s \in Nat /\ One * s \in Nat
         /\ a * c \in Int
         /\ 2 * (a * c) - One * s <= 2 * (One * Times(a, c))
         /\ 2 * (One * Times(a, c)) <= 2 * (a * c) + One * s
<1>1. PICK n, p : n = Times(a, c) /\ p = a * c
  OBVIOUS
<1>2. Double \in Formats /\ One \in Nat \ {0} /\ n = Rounded(Double)[<<p, One>>] /\ p \in Int
  BY <1>1, CodecAssumption DEF Formats, Times
<1>3. /\ n \in Int /\ One * n \in Int /\ s \in Nat /\ One * s \in Nat
      /\ 2 * p - One * s <= 2 * (One * n) /\ 2 * (One * n) <= 2 * p + One * s
  BY <1>1, <1>2, RoundedIs
<1> QED
  BY <1>1, <1>2, <1>3

LEMMA OverError ==
  ASSUME NEW a \in Int, NEW c \in Int \ {0}, NEW s, s = Spacing(Double, a * One, Magnitude(c))
  PROVE  /\ Over(a, c) \in Int /\ c * Over(a, c) \in Int /\ a * One \in Int
         /\ Magnitude(c) * s \in Nat
         /\ 2 * (a * One) - Magnitude(c) * s <= 2 * (c * Over(a, c))
         /\ 2 * (c * Over(a, c)) <= 2 * (a * One) + Magnitude(c) * s
<1>1. PICK n, p, d, m : n = Over(a, c) /\ p = a * One /\ d = Dividend(a, c) /\ m = Magnitude(c)
  OBVIOUS
<1>2. /\ Double \in Formats /\ m \in Nat \ {0} /\ n = Rounded(Double)[<<d, m>>] /\ p \in Int
      /\ (c < 0 => d = -p /\ c = -m) /\ (c > 0 => d = p /\ c = m) /\ d \in Int
  BY <1>1, CodecAssumption DEF Formats, Over, Dividend, Magnitude
<1>3. Magnitude(d) = Magnitude(p)
  BY <1>2 DEF Magnitude
<1>4. s = Spacing(Double, d, m)
  BY <1>1, <1>3 DEF Spacing
<1>5. /\ n \in Int /\ m * n \in Int /\ m * s \in Nat
      /\ 2 * d - m * s <= 2 * (m * n) /\ 2 * (m * n) <= 2 * d + m * s
  BY <1>2, <1>4, RoundedIs
<1>6. CASE c > 0
  <2>1. c * n = m * n
    BY <1>2, <1>6
  <2> QED
    BY <1>1, <1>2, <1>5, <1>6, <2>1
<1>7. CASE c < 0
  <2>1. c * n = (-m) * n
    BY <1>2, <1>7
  <2>2. (-m) * n = -(m * n)
    BY <1>2, <1>5
  <2> QED
    BY <1>1, <1>2, <1>5, <1>7, <2>1, <2>2
<1> QED
  BY <1>6, <1>7
-----------------------------------------------------------------------------
(* A number on the wire.                                                     *)

LEMMA FieldIs ==
  ASSUME NEW f \in Field
  PROVE  f.scale \in Int \ {0} /\ f.shift \in Int /\ -f.shift \in Int /\ One \in Nat \ {0}
BY CodecAssumption DEF Field

LEMMA DivisionMonotone ==
  ASSUME NEW a \in Int, NEW b \in Int, a <= b, NEW d \in Nat \ {0}
  PROVE  a \div d \in Int /\ b \div d \in Int /\ a \div d <= b \div d
<1>1. PICK x, y, u, v : x = a \div d /\ y = b \div d /\ u = a % d /\ v = b % d
  OBVIOUS
<1>2. /\ x \in Int /\ u \in Nat /\ u < d /\ d * x \in Int /\ a = d * x + u
      /\ y \in Int /\ v \in Nat /\ v < d /\ d * y \in Int /\ b = d * y + v
  BY <1>1, Division
<1>3. d * x < d * y + d
  BY <1>2
<1>4. x <= y
  BY <1>2, <1>3, CountsOrdered
<1> QED
  BY <1>1, <1>2, <1>4

(* A number is divided by a scale of either sign.                            *)
Agree(f, a, b) == IF f.scale > 0 THEN a <= b ELSE b <= a

LEMMA UnscaledMonotone ==
  ASSUME NEW f \in Field, NEW v \in Int, NEW w \in Int, v <= w
  PROVE  /\ Unscaled(f, v) \in Int /\ Unscaled(f, w) \in Int
         /\ Agree(f, Unscaled(f, v), Unscaled(f, w))
<1>1. PICK a, b, shift, c : a = Float(v) /\ b = Float(w) /\ shift = -f.shift /\ c = f.scale
  OBVIOUS
<1>2. c \in Int \ {0} /\ shift \in Int /\ One \in Nat \ {0}
  BY <1>1, FieldIs
<1>3. a \in Int /\ b \in Int /\ a <= b
  BY <1>1, FloatMonotone
<1>4. PICK d, e : d = Plus(a, shift) /\ e = Plus(b, shift)
  OBVIOUS
<1>5. d \in Int /\ e \in Int /\ d <= e
  <2>1. a + shift \in Int /\ b + shift \in Int /\ a + shift <= b + shift
    BY <1>2, <1>3
  <2> QED
    BY <1>4, <2>1, FloatMonotone DEF Plus
<1>6. /\ Over(d, c) \in Int /\ Over(e, c) \in Int
      /\ c > 0 => Over(d, c) <= Over(e, c)
      /\ c < 0 => Over(e, c) <= Over(d, c)
  BY <1>2, <1>5, OverMonotone
<1>7. Unscaled(f, v) = Over(d, c) /\ Unscaled(f, w) = Over(e, c)
  BY <1>1, <1>4 DEF Unscaled
<1> QED
  BY <1>1, <1>2, <1>6, <1>7 DEF Agree

LEMMA RawMonotone ==
  ASSUME NEW f \in Field, NEW v \in Int, NEW w \in Int, v <= w
  PROVE  /\ ToRaw(f, v) \in Int /\ ToRaw(f, w) \in Int
         /\ IF IsPlain(f) THEN ToRaw(f, v) <= ToRaw(f, w)
            ELSE Agree(f, ToRaw(f, v), ToRaw(f, w))
<1>1. PICK x, y : x = Unscaled(f, v) /\ y = Unscaled(f, w)
  OBVIOUS
<1>2. x \in Int /\ y \in Int /\ Agree(f, x, y)
  BY <1>1, UnscaledMonotone
<1>3. One \in Nat \ {0} /\ 1 \in Nat \ {0} /\ Single \in Formats
  BY CodecAssumption DEF Formats
<1>4. CASE IsPlain(f)
  <2>1. ToRaw(f, v) = v \div One /\ ToRaw(f, w) = w \div One
    BY <1>4 DEF ToRaw, IsPlain
  <2> QED
    BY <1>3, <1>4, <2>1, DivisionMonotone
<1>5. CASE IsFloat(f) /\ f.length = 4
  <2>1. /\ ToRaw(f, v) = Rounded(Single)[<<x, 1>>] /\ ToRaw(f, w) = Rounded(Single)[<<y, 1>>]
        /\ ~IsPlain(f)
    BY <1>1, <1>5 DEF ToRaw, IsPlain
  <2>2. CASE f.scale > 0
    <3>1. x <= y
      BY <1>2, <2>2 DEF Agree
    <3> QED
      BY <1>2, <1>3, <2>1, <2>2, <3>1, RoundedMonotone DEF Agree
  <2>3. CASE ~(f.scale > 0)
    <3>1. y <= x
      BY <1>2, <2>3 DEF Agree
    <3> QED
      BY <1>2, <1>3, <2>1, <2>3, <3>1, RoundedMonotone DEF Agree
  <2> QED
    BY <2>2, <2>3
<1>6. CASE IsFloat(f) /\ f.length # 4
  <2>1. ToRaw(f, v) = x /\ ToRaw(f, w) = y /\ ~IsPlain(f)
    BY <1>1, <1>6 DEF ToRaw, IsPlain
  <2> QED
    BY <1>2, <2>1
<1>7. CASE ~IsFloat(f) /\ ~IsPlain(f)
  <2>1. ToRaw(f, v) = Nearest[<<x, One>>] /\ ToRaw(f, w) = Nearest[<<y, One>>]
    BY <1>1, <1>7 DEF ToRaw
  <2>2. Nearest[<<x, One>>] \in Int /\ Nearest[<<y, One>>] \in Int
    BY <1>2, <1>3, NearestIs
  <2>3. CASE f.scale > 0
    <3>1. x <= y
      BY <1>2, <2>3 DEF Agree
    <3>2. Nearest[<<x, One>>] <= Nearest[<<y, One>>]
      BY <1>2, <1>3, <3>1, NearestMonotone
    <3> QED
      BY <1>7, <2>1, <2>2, <2>3, <3>2 DEF Agree
  <2>4. CASE ~(f.scale > 0)
    <3>1. y <= x
      BY <1>2, <2>4 DEF Agree
    <3>2. Nearest[<<y, One>>] <= Nearest[<<x, One>>]
      BY <1>2, <1>3, <3>1, NearestMonotone
    <3> QED
      BY <1>7, <2>1, <2>2, <2>4, <3>2 DEF Agree
  <2> QED
    BY <2>3, <2>4
<1> QED
  BY <1>4, <1>5, <1>6, <1>7

LEMMA NumberMonotone ==
  ASSUME NEW f \in Field, NEW x \in Int, NEW y \in Int, x <= y
  PROVE  /\ Number(f, x) \in Int /\ Number(f, y) \in Int
         /\ Number(f, x) <= Number(f, y)
<1>1. One \in Nat \ {0}
  BY FieldIs
<1>2. x * One \in Int /\ y * One \in Int /\ x * One <= y * One
  BY <1>1
<1>3. Float(x * One) \in Int /\ Float(y * One) \in Int /\ Float(x * One) <= Float(y * One)
  BY <1>2, FloatMonotone
<1> QED
  BY <1>3 DEF Number

(* signal_codec.py: the wire keeps the order of the numbers it carries,      *)
(* whatever the width, type, byte order, scale and offset of the field, and  *)
(* however many of them it rounds to the same number.  What is compared with *)
(* a threshold by an observer may be off, but not the wrong way round.       *)
THEOREM WireKeepsOrder ==
  ASSUME NEW f \in Field, NEW v \in Int, NEW w \in Int, v <= w
  PROVE  Carried(f, v) \in Int /\ Carried(f, w) \in Int /\ Carried(f, v) <= Carried(f, w)
<1>1. PICK x, y, c, shift : x = ToRaw(f, v) /\ y = ToRaw(f, w) /\ c = f.scale /\ shift = f.shift
  OBVIOUS
<1>2. /\ x \in Int /\ y \in Int
      /\ IF IsPlain(f) THEN x <= y ELSE Agree(f, x, y)
  BY <1>1, RawMonotone
<1>3. c \in Int \ {0} /\ shift \in Int /\ One \in Nat \ {0}
  BY <1>1, FieldIs
<1>4. CASE IsPlain(f)
  <2>1. x * One <= y * One /\ x * One \in Int /\ y * One \in Int
    BY <1>2, <1>3, <1>4
  <2> QED
    BY <1>1, <1>4, <2>1 DEF Carried, FromRaw
<1>5. CASE ~IsPlain(f)
  <2>1. PICK a, b : a = Number(f, x) /\ b = Number(f, y)
    OBVIOUS
  <2>2. a \in Int /\ b \in Int /\ (c > 0 => a <= b) /\ (c < 0 => b <= a)
    <3>1. (c > 0 => x <= y) /\ (c < 0 => y <= x)
      BY <1>1, <1>2, <1>3, <1>5 DEF Agree
    <3> QED
      BY <1>2, <1>3, <2>1, <3>1, NumberMonotone
  <2>3. PICK s, t : s = Times(a, c) /\ t = Times(b, c)
    OBVIOUS
  <2>4. s \in Int /\ t \in Int /\ s <= t
    BY <1>3, <2>2, <2>3, TimesMonotone
  <2>5. s + shift \in Int /\ t + shift \in Int /\ s + shift <= t + shift
    BY <1>3, <2>4
  <2>6. Carried(f, v) = Float(s + shift) /\ Carried(f, w) = Float(t + shift)
    BY <1>1, <1>5, <2>1, <2>3 DEF Carried, FromRaw, Plus
  <2> QED
    BY <2>5, <2>6, FloatMonotone
<1> QED
  BY <1>4, <1>5

(* signal_codec.py pack_value and unpack_value: a number that a field takes  *)
(* is decoded as what the field carries of it.                               *)
LEMMA RoundTrip ==
  ASSUME NEW f \in Field, NEW value \in Int, NEW isInt, Encodable(f, value, isInt)
  PROVE  DecodeNumber(f, EncodeNumber(f, value)) = Carried(f, value)
<1>1. PICK raw : raw = ToRaw(f, value)
  OBVIOUS
<1>2. raw \in Int /\ InRange(f, raw)
  <2>1. raw \in Int
    BY <1>1, RawMonotone
  <2> QED
    BY <1>1, <2>1 DEF Encodable
<1>3. Unpack(f, Pack(f, raw)) = raw
  BY <1>2, PackRoundTrip
<1> QED
  BY <1>1, <1>3 DEF DecodeNumber, EncodeNumber, Carried
(* An error within a bound, so many times over.                              *)
LEMMA ErrorTimes ==
  ASSUME NEW c \in Int, NEW a \in Int, NEW b \in Int, NEW s \in Nat,
         2 * a - s <= 2 * b, 2 * b <= 2 * a + s
  PROVE  /\ c * a \in Int /\ c * b \in Int /\ Magnitude(c) * s \in Nat
         /\ 2 * (c * a) - Magnitude(c) * s <= 2 * (c * b)
         /\ 2 * (c * b) <= 2 * (c * a) + Magnitude(c) * s
<1>1. PICK m, d : m = Magnitude(c) /\ d = b - a
  OBVIOUS
<1>2. m \in Nat /\ d \in Int /\ -s <= 2 * d /\ 2 * d <= s /\ (c = m \/ c = -m)
  BY <1>1 DEF Magnitude
<1>3. /\ m * s \in Nat /\ m * d \in Int /\ m * (-s) <= m * (2 * d) /\ m * (2 * d) <= m * s
      /\ m * (-s) = -(m * s) /\ m * (2 * d) = 2 * (m * d)
  BY <1>2
<1>4. c * a \in Int /\ c * b \in Int /\ c * b = c * a + c * d
  <2>1. b = a + d
    BY <1>1, <1>2
  <2>2. c * (a + d) = c * a + c * d /\ c * a \in Int /\ c * d \in Int
    BY <1>2
  <2> QED
    BY <2>1, <2>2
<1>5. c * d = m * d \/ c * d = -(m * d)
  <2>1. (-m) * d = -(m * d)
    BY <1>2
  <2> QED
    BY <1>2, <2>1
<1> QED
  BY <1>1, <1>3, <1>4, <1>5

(* From the number that is divided by the scale to the one multiplied by it: *)
(* what binary32 rounds, or the conversion to an integer and back.           *)
Wire(f, value) ==
  IF IsFloat(f)
    THEN IF f.length = 4 THEN Spacing(Single, Unscaled(f, value), 1) ELSE 0
    ELSE 2 * Tolerance + Spacing(Double, ToRaw(f, value) * One, 1)

LEMMA WireError ==
  ASSUME NEW f \in Field, NEW value \in Int, NEW isInt, Encodable(f, value, isInt), ~IsPlain(f),
         NEW x, x = Unscaled(f, value), NEW y, y = Number(f, ToRaw(f, value)),
         NEW s, s = Wire(f, value)
  PROVE  x \in Int /\ y \in Int /\ s \in Nat /\ 2 * x - s <= 2 * y /\ 2 * y <= 2 * x + s
<1>1. x \in Int /\ One \in Nat \ {0} /\ Tolerance \in Nat
  BY UnscaledMonotone, CodecAssumption
<1>2. CASE IsFloat(f) /\ f.length = 4
  <2>1. y = Rounded(Single)[<<x, 1>>] /\ s = Spacing(Single, x, 1)
    BY <1>2 DEF Number, ToRaw, Wire
  <2>2. Single \in Formats /\ 1 \in Nat \ {0}
    BY DEF Formats
  <2>3. /\ y \in Int /\ s \in Nat
        /\ 2 * x - 1 * s <= 2 * (1 * y) /\ 2 * (1 * y) <= 2 * x + 1 * s
    BY <1>1, <2>1, <2>2, RoundedIs
  <2> QED
    BY <1>1, <2>3
<1>3. CASE IsFloat(f) /\ f.length # 4
  <2>1. y = x /\ s = 0
    BY <1>3 DEF Number, ToRaw, Wire
  <2> QED
    BY <1>1, <2>1
<1>4. CASE ~IsFloat(f)
  <2>1. PICK r, n, u : r = ToRaw(f, value) /\ n = r * One /\ u = Spacing(Double, n, 1)
    OBVIOUS
  <2>2. r \in Int /\ r = Nearest[<<x, One>>]
    <3>1. r = Nearest[<<x, One>>]
      BY <1>4, <2>1 DEF ToRaw
    <3> QED
      BY <1>1, <3>1, NearestIs
  <2>3. n \in Int /\ Magnitude(x - n) <= Tolerance
    <3>1. n \in Int
      BY <1>1, <2>1, <2>2
    <3>2. Magnitude(x - Nearest[<<x, One>>] * One) <= Tolerance
      BY <1>4 DEF Encodable, Converts
    <3> QED
      BY <2>1, <2>2, <3>1, <3>2
  <2>4. /\ y = Float(n) /\ s = 2 * Tolerance + u
    BY <1>4, <2>1 DEF Number, Wire
  <2>5. Float(n) \in Int /\ u \in Nat /\ 2 * n - u <= 2 * Float(n) /\ 2 * Float(n) <= 2 * n + u
    BY <2>1, <2>3, FloatError
  <2>6. -Tolerance <= x - n /\ x - n <= Tolerance
    BY <1>1, <2>3 DEF Magnitude
  <2> QED
    BY <1>1, <2>3, <2>4, <2>5, <2>6
<1> QED
  BY <1>2, <1>3, <1>4

(* A plain integer is carried as it is, anything else to within its Blur.    *)
LEMMA CarriedError ==
  ASSUME NEW f \in Field, NEW value \in Int, NEW isInt, isInt => value % One = 0,
         Encodable(f, value, isInt)
  PROVE  2 * One * Magnitude(Carried(f, value) - value) <= Blur(f, value)
<1>0. One \in Nat \ {0}
  BY CodecAssumption
<1>1. CASE IsPlain(f)
  <2>1. value % One = 0
    BY <1>1 DEF Encodable, Converts, IsPlain
  <2>2. PICK q : q = value \div One
    OBVIOUS
  <2>3. q \in Int /\ One * q \in Int /\ value = One * q
    BY <1>0, <2>1, <2>2, Division
  <2>4. Carried(f, value) = q * One
    BY <1>1, <2>2 DEF Carried, FromRaw, ToRaw, IsPlain
  <2>5. Carried(f, value) - value = 0
    BY <1>0, <2>3, <2>4
  <2>6. Blur(f, value) = 0
    BY <1>1 DEF Blur
  <2> QED
    BY <1>0, <2>5, <2>6 DEF Magnitude
<1>2. CASE ~IsPlain(f)
  <2>1. PICK a, shift, c, m :
          a = Float(value) /\ shift = f.shift /\ c = f.scale /\ m = Magnitude(c)
    OBVIOUS
  <2>2. PICK d, x, y, z, t :
          /\ d = Float(a - shift) /\ x = Unscaled(f, value) /\ y = Number(f, ToRaw(f, value))
          /\ z = Times(y, c) /\ t = Float(z + shift)
    OBVIOUS
  <2>3. PICK s0, s1, s2, s3, s4, s5 :
          /\ s0 = Spacing(Double, value, 1) /\ s1 = Spacing(Double, a - shift, 1)
          /\ s2 = Spacing(Double, d * One, m) /\ s3 = Wire(f, value)
          /\ s4 = Spacing(Double, y * c, One) /\ s5 = Spacing(Double, z + shift, 1)
    OBVIOUS
  <2>4. /\ c \in Int \ {0} /\ shift \in Int /\ m \in Nat \ {0} /\ Magnitude(One) = One
    BY <1>0, <2>1, FieldIs DEF Magnitude
  <2>5. a \in Int /\ s0 \in Nat /\ 2 * value - s0 <= 2 * a /\ 2 * a <= 2 * value + s0
    BY <2>1, <2>3, FloatError
  <2>6. /\ a - shift \in Int /\ d \in Int /\ s1 \in Nat
        /\ 2 * (a - shift) - s1 <= 2 * d /\ 2 * d <= 2 * (a - shift) + s1
    <3>1. a - shift \in Int
      BY <2>4, <2>5
    <3> QED
      BY <2>2, <2>3, <3>1, FloatError
  <2>7. x = Over(d, c)
    <3>1. a + (-shift) = a - shift
      BY <2>4, <2>5
    <3> QED
      BY <2>1, <2>2, <3>1 DEF Unscaled, Plus
  <2>8. /\ x \in Int /\ c * x \in Int /\ d * One \in Int /\ m * s2 \in Nat
        /\ 2 * (d * One) - m * s2 <= 2 * (c * x) /\ 2 * (c * x) <= 2 * (d * One) + m * s2
    BY <2>1, <2>3, <2>4, <2>6, <2>7, OverError
  <2>9. y \in Int /\ s3 \in Nat /\ 2 * x - s3 <= 2 * y /\ 2 * y <= 2 * x + s3
    BY <1>2, <2>2, <2>3, WireError
  <2>10. /\ z \in Int /\ One * z \in Int /\ One * s4 \in Nat /\ y * c \in Int
         /\ 2 * (y * c) - One * s4 <= 2 * (One * z) /\ 2 * (One * z) <= 2 * (y * c) + One * s4
    BY <2>2, <2>3, <2>4, <2>9, TimesError
  <2>11. /\ z + shift \in Int /\ t \in Int /\ s5 \in Nat
         /\ 2 * (z + shift) - s5 <= 2 * t /\ 2 * t <= 2 * (z + shift) + s5
    <3>1. z + shift \in Int
      BY <2>4, <2>10
    <3> QED
      BY <2>2, <2>3, <3>1, FloatError
  <2>12. /\ One * value \in Int /\ One * a \in Int /\ One * s0 \in Nat
         /\ 2 * (One * value) - One * s0 <= 2 * (One * a)
         /\ 2 * (One * a) <= 2 * (One * value) + One * s0
    <3>1. One \in Int
      BY <1>0
    <3> QED
      BY <2>4, <2>5, <3>1, ErrorTimes
  <2>13. /\ One * (a - shift) \in Int /\ One * d \in Int /\ One * s1 \in Nat
         /\ 2 * (One * (a - shift)) - One * s1 <= 2 * (One * d)
         /\ 2 * (One * d) <= 2 * (One * (a - shift)) + One * s1
    <3>1. One \in Int
      BY <1>0
    <3> QED
      BY <2>4, <2>6, <3>1, ErrorTimes
  <2>14. /\ c * x \in Int /\ c * y \in Int /\ m * s3 \in Nat
         /\ 2 * (c * x) - m * s3 <= 2 * (c * y) /\ 2 * (c * y) <= 2 * (c * x) + m * s3
    <3>1. c \in Int /\ x \in Int
      BY <2>4, <2>8
    <3> QED
      BY <2>1, <2>9, <3>1, ErrorTimes
  <2>15. /\ One * (z + shift) \in Int /\ One * t \in Int /\ One * s5 \in Nat
         /\ 2 * (One * (z + shift)) - One * s5 <= 2 * (One * t)
         /\ 2 * (One * t) <= 2 * (One * (z + shift)) + One * s5
    <3>1. One \in Int
      BY <1>0
    <3> QED
      BY <2>4, <2>11, <3>1, ErrorTimes
  <2>16. PICK os : os = One * shift
    OBVIOUS
  <2>17. /\ os \in Int /\ One * (a - shift) = One * a - os /\ One * (z + shift) = One * z + os
         /\ d * One = One * d /\ y * c = c * y
    BY <1>0, <2>4, <2>5, <2>6, <2>9, <2>10, <2>16
  <2>18. PICK bound : bound = (m * s2 + m * s3) + (One * s0 + One * s1 + One * s4 + One * s5)
    OBVIOUS
  <2>19. /\ bound \in Nat
         /\ 2 * (One * value) - bound <= 2 * (One * t) /\ 2 * (One * t) <= 2 * (One * value) + bound
    <3>1. /\ 2 * (One * d) - m * s2 <= 2 * (c * x) /\ 2 * (c * x) <= 2 * (One * d) + m * s2
          /\ 2 * (c * y) - One * s4 <= 2 * (One * z) /\ 2 * (One * z) <= 2 * (c * y) + One * s4
      BY <2>8, <2>10, <2>17
    <3>2. /\ 2 * (One * a - os) - One * s1 <= 2 * (One * d)
          /\ 2 * (One * d) <= 2 * (One * a - os) + One * s1
          /\ 2 * (One * z + os) - One * s5 <= 2 * (One * t)
          /\ 2 * (One * t) <= 2 * (One * z + os) + One * s5
      BY <2>13, <2>15, <2>17
    <3>3. PICK ov, oa, od, cx, cy, oz, ot, b0, b1, b2, b3, b4, b5 :
            /\ ov = One * value /\ oa = One * a /\ od = One * d /\ cx = c * x /\ cy = c * y
            /\ oz = One * z /\ ot = One * t /\ b0 = One * s0 /\ b1 = One * s1 /\ b2 = m * s2
            /\ b3 = m * s3 /\ b4 = One * s4 /\ b5 = One * s5
      OBVIOUS
    <3>4. /\ ov \in Int /\ oa \in Int /\ od \in Int /\ cx \in Int /\ cy \in Int
          /\ oz \in Int /\ ot \in Int /\ os \in Int
          /\ b0 \in Nat /\ b1 \in Nat /\ b2 \in Nat /\ b3 \in Nat /\ b4 \in Nat /\ b5 \in Nat
      BY <2>8, <2>10, <2>12, <2>13, <2>14, <2>15, <2>17, <3>3
    <3>5. /\ 2 * ov - b0 <= 2 * oa /\ 2 * oa <= 2 * ov + b0
          /\ 2 * (oa - os) - b1 <= 2 * od /\ 2 * od <= 2 * (oa - os) + b1
          /\ 2 * od - b2 <= 2 * cx /\ 2 * cx <= 2 * od + b2
          /\ 2 * cx - b3 <= 2 * cy /\ 2 * cy <= 2 * cx + b3
          /\ 2 * cy - b4 <= 2 * oz /\ 2 * oz <= 2 * cy + b4
          /\ 2 * (oz + os) - b5 <= 2 * ot /\ 2 * ot <= 2 * (oz + os) + b5
      BY <2>12, <2>14, <3>1, <3>2, <3>3
    <3>6. bound = (b2 + b3) + (b0 + b1 + b4 + b5)
      BY <2>18, <3>3
    <3>7. bound \in Nat /\ 2 * ov - bound <= 2 * ot /\ 2 * ot <= 2 * ov + bound
      BY ONLY <3>4, <3>5, <3>6
    <3> QED
      BY <3>3, <3>7
  <2>20. Blur(f, value) = bound
    <3>1. PICK n : n = ToRaw(f, value)
      OBVIOUS
    <3>2. a + (-shift) = a - shift
      BY <2>4, <2>5
    <3>3. Blur(f, value) = m * (s2 + s3) + One * (s0 + s1 + s4 + s5)
      BY <1>2, <2>1, <2>2, <2>3, <3>2 DEF Blur, Plus, Wire
    <3>4. s2 \in Nat /\ s4 \in Nat
      <4>1. s2 = Spacing(Double, Dividend(d, c), m)
        BY <2>1, <2>3, <2>8 DEF Spacing, Dividend, Magnitude
      <4>2. PICK half \in Nat \ {0} : Double.precision = 2 * half
        BY FormatIs DEF Formats
      <4>3. Double \in Formats /\ Dividend(d, c) \in Int
        BY <2>8 DEF Formats, Dividend
      <4> QED
        BY <1>0, <2>3, <2>4, <2>10, <4>1, <4>2, <4>3, SpacingIs
    <3>5. m * (s2 + s3) = m * s2 + m * s3
      BY <2>4, <2>9, <3>4
    <3>6. One * (s0 + s1 + s4 + s5) = One * s0 + One * s1 + One * s4 + One * s5
      BY <1>0, <2>5, <2>6, <2>11, <3>4
    <3> QED
      BY <2>18, <3>3, <3>5, <3>6
  <2>21. Carried(f, value) = t
    BY <1>2, <2>1, <2>2 DEF Carried, FromRaw, Plus
  <2>22. PICK e, n : e = t - value /\ n = Magnitude(e)
    OBVIOUS
  <2>23. /\ e \in Int /\ n \in Nat /\ (n = e \/ n = -e)
         /\ One * e = One * t - One * value /\ One * (-e) = -(One * e)
         /\ 2 * One * n = 2 * (One * n)
    BY <1>0, <2>11, <2>22 DEF Magnitude
  <2> QED
    BY <2>12, <2>15, <2>19, <2>20, <2>21, <2>22, <2>23
<1> QED
  BY <1>1, <1>2
-----------------------------------------------------------------------------
(* telemetry_codec.py _to_raw and _from_raw: a label is decoded as it was.   *)
LEMMA LabelRoundTrip ==
  ASSUME LabelsFit, NEW label \in {"on", "off"}
  PROVE  DecodeLabel(StatusField, StatusLabel, EncodeLabel(StatusField, StatusLabel, label))
           = label
<1>1. StatusField \in Field /\ IsPlain(StatusField) /\ ~IsFloat(StatusField) /\ One \in Nat \ {0}
  BY ThermalAssumption, CodecAssumption DEF LabelsFit, IsPlain
<1>2. PICK key : key = CHOOSE k \in DOMAIN StatusLabel : StatusLabel[k] = label
  OBVIOUS
<1>3. \E k \in DOMAIN StatusLabel : StatusLabel[k] = label
  BY DEF LabelsFit
<1>4. key \in DOMAIN StatusLabel /\ StatusLabel[key] = label
  BY <1>2, <1>3
<1>5. key \in Int /\ InRange(StatusField, key)
  <2>1. key \in RawRange(StatusField)
    BY <1>4 DEF LabelsFit
  <2>2. PICK n : n = StatusField.length
    OBVIOUS
  <2>3. n \in Nat \ {0} /\ 8 * n - 1 \in Nat
    BY <1>1, <2>2 DEF Field
  <2>4. Span(n) \in Int /\ Two[8 * n - 1] \in Int
    BY <2>3, SpanIs, TwoIs
  <2>5. key \in Int
    BY <2>1, <2>2, <2>4 DEF RawRange
  <2> QED
    BY <1>1, <2>1, <2>5 DEF InRange
<1>6. PICK value : value = One * key
  OBVIOUS
<1>7. value \in Int /\ key * One = value
  BY <1>1, <1>5, <1>6
<1>8. ToRaw(StatusField, value) = key
  <2>1. value \div One = key
    <3>1. value = One * key + 0 /\ 0 \in Nat /\ 0 < One
      BY <1>1, <1>6, <1>7
    <3> QED
      BY <1>1, <1>5, <1>7, <3>1, DivisionUnique
  <2> QED
    BY <1>1, <2>1 DEF ToRaw
<1>9. DecodeNumber(StatusField, EncodeNumber(StatusField, value)) = value
  <2>1. Unpack(StatusField, Pack(StatusField, key)) = key
    BY <1>1, <1>5, PackRoundTrip
  <2> QED
    BY <1>1, <1>7, <1>8, <2>1 DEF DecodeNumber, EncodeNumber, FromRaw
<1>10. Truncated(value) = key
  <2>1. CASE value < 0
    <3>1. -value = One * (-key) + 0 /\ 0 \in Nat /\ 0 < One /\ -value \in Int /\ -key \in Int
      BY <1>1, <1>5, <1>6, <1>7
    <3>2. (-value) \div One = -key
      BY <1>1, <3>1, DivisionUnique
    <3> QED
      BY <1>5, <2>1, <3>2 DEF Truncated
  <2>2. CASE ~(value < 0)
    <3>1. value = One * key + 0 /\ 0 \in Nat /\ 0 < One
      BY <1>1, <1>6, <1>7
    <3>2. value \div One = key
      BY <1>1, <1>5, <1>7, <3>1, DivisionUnique
    <3> QED
      BY <2>2, <3>2 DEF Truncated
  <2> QED
    BY <2>1, <2>2
<1> QED
  BY <1>2, <1>4, <1>6, <1>9, <1>10 DEF DecodeLabel, EncodeLabel

-----------------------------------------------------------------------------
(* The layout of the temperature is one of those of the setup.              *)
LEMMA FieldInvariant == Spec => [](field \in TemperatureField /\ field \in Field)
<1> DEFINE Inv == field \in TemperatureField /\ field \in Field
<1>1. Init => Inv
  BY ThermalAssumption DEF Init
<1>2. Inv /\ [Next]_vars => Inv'
  BY DEF Next, PhysicalStep, InjectFaultStep, SendCommandStep, OverrideEnds, vars
<1> QED
  BY <1>1, <1>2, PTL DEF Spec

(* _emit_configured_telemetry: what is seen and what is answered, unless it  *)
(* raises.                                                                   *)
LEMMA Emission ==
  ASSUME LabelsFit, field \in Field, field' = field, ThermalInv', NEW on,
         EmitTelemetry(on)
  PROVE  \/ running' = FALSE /\ commanded' = on
         \/ /\ seen' = [temperature |-> Carried(field, Reported'), status |-> HeaterStatus(on)']
            /\ commanded' = Answered(Carried(field, Reported'), on)
            /\ 2 * One * Magnitude(Carried(field, Reported') - Reported')
                 <= Blur(field, Reported')
<1>1. PICK value, status, isInt :
        value = Reported' /\ status = HeaterStatus(on)' /\ isInt = IsInt'
  OBVIOUS
<1>2. value \in Int /\ (isInt => value % One = 0)
  <2>1. Temperature' \in Int
    BY DEF ThermalInv, Temperature, Resolve, Fits, Numbers, Overridden
  <2>2. over'["signal"] = None \/ over'["signal"] \in Int
    BY DEF ThermalInv, Fits, Numbers, Overridden
  <2> QED
    BY <1>1, <2>1, <2>2 DEF Reported, IsInt, Resolve
<1>3. status \in {"on", "off"}
  BY <1>1 DEF HeaterStatus
<1>4. CASE Encodable(field, value, isInt)
  <2>1. DecodeNumber(field, EncodeNumber(field, value)) = Carried(field, value)
    BY <1>2, <1>4, RoundTrip
  <2>2. DecodeLabel(StatusField, StatusLabel, EncodeLabel(StatusField, StatusLabel, status))
          = status
    BY <1>3, LabelRoundTrip
  <2>3. /\ seen' = [temperature |-> Carried(field, value), status |-> status]
        /\ commanded' = Answered(Carried(field, value), on)
    BY <1>1, <1>4, <2>1, <2>2 DEF EmitTelemetry
  <2>4. 2 * One * Magnitude(Carried(field, value) - value) <= Blur(field, value)
    BY <1>2, <1>4, CarriedError
  <2> QED
    BY <1>1, <2>3, <2>4
<1>5. CASE ~Encodable(field, value, isInt)
  BY <1>1, <1>5 DEF EmitTelemetry
<1> QED
  BY <1>4, <1>5

(* The wire distorts no more than it must: for every node, wire layout and   *)
(* override, what the OBC decodes is what the node reports to within the     *)
(* roundings on the way, or the step raises.  The range of the field, its    *)
(* bytes and their order add nothing.                                        *)
THEOREM WireIsPrecise == ASSUME LabelsFit PROVE Spec => WithinResolution
<1> DEFINE Inv == ThermalInv /\ field \in Field
           Moved == temperature' # temperature /\ running'
           Precise ==
             /\ seen'.status = HeaterStatus(commanded)
             /\ \A value \in {Reported'} :
                  2 * One * Magnitude(seen'.temperature - value) <= Blur(field, value)
<1>1. ASSUME Inv, ThermalInv', [Next]_vars, Moved
      PROVE  Precise
  <2>1. PhysicalStep
    BY <1>1 DEF Next, InjectFaultStep, SendCommandStep, OverrideEnds, vars
  <2>2. PICK on : on = commanded
    OBVIOUS
  <2>3. EmitTelemetry(on) /\ field' = field /\ over' = over /\ faults' = faults
    BY <2>1, <2>2 DEF PhysicalStep
  <2>4. /\ seen' = [temperature |-> Carried(field, Reported'), status |-> HeaterStatus(on)']
        /\ 2 * One * Magnitude(Carried(field, Reported') - Reported') <= Blur(field, Reported')
    BY <1>1, <2>3, Emission
  <2>5. HeaterStatus(on)' = HeaterStatus(on)
    BY <2>3 DEF HeaterStatus, HeaterEnabled, Resolve
  <2>6. seen'.temperature = Carried(field, Reported') /\ seen'.status = HeaterStatus(on)
    BY <2>4, <2>5
  <2> QED
    BY <2>2, <2>4, <2>6
<1>2. Inv /\ ThermalInv' /\ [Next]_vars => [Moved => Precise]_vars
  BY <1>1
<1> QED
  BY <1>2, ThermalInvariant, FieldInvariant, PTL DEF Spec, WithinResolution

(* Multiples of the capacity that differ by less than one are ordered.       *)
LEMMA Multiples ==
  ASSUME NEW x \in Int, NEW y \in Int, Capacity * x < Capacity * y + Capacity
  PROVE  x <= y
<1>0. Capacity \in Nat /\ Capacity > 0
  BY ThermalAssumption
<1> SUFFICES ASSUME x >= y + 1 PROVE FALSE
  OBVIOUS
<1>1. Capacity * x >= Capacity * (y + 1)
  BY <1>0
<1>2. /\ Capacity * (y + 1) = Capacity * y + Capacity
      /\ Capacity * x \in Int /\ Capacity * y \in Int
  BY <1>0
<1> QED
  BY <1>0, <1>1, <1>2

LEMMA Quotient ==
  ASSUME NEW a \in Nat
  PROVE  /\ a \div Capacity \in Nat
         /\ Capacity * (a \div Capacity) \in Nat
         /\ Capacity * (a \div Capacity) <= a
         /\ a < Capacity * (a \div Capacity) + Capacity
<1>0. Capacity \in Nat /\ Capacity > 0
  BY ThermalAssumption
<1> QED
  BY <1>0

(* More power never means less change.                                       *)
LEMMA ChangeMonotonic ==
  ASSUME NEW p \in Int, NEW q \in Int, p <= q
  PROVE  Change(p) \in Int /\ Change(q) \in Int /\ Change(p) <= Change(q)
<1>1. ASSUME NEW a \in Nat, NEW b \in Nat, a <= b
      PROVE  a \div Capacity <= b \div Capacity
  <2> DEFINE x == a \div Capacity
             y == b \div Capacity
  <2>1. /\ x \in Nat /\ Capacity * x <= a /\ Capacity * x \in Nat
        /\ y \in Nat /\ b < Capacity * y + Capacity /\ Capacity * y \in Nat
    BY Quotient
  <2>2. Capacity \in Nat
    BY ThermalAssumption
  <2> HIDE DEF x, y
  <2>3. Capacity * x < Capacity * y + Capacity
    BY <1>1, <2>1, <2>2
  <2>4. x <= y
    BY <2>1, <2>3, Multiples
  <2> QED
    BY <2>4 DEF x, y
<1>2. CASE p >= 0
  <2>1. p \in Nat /\ q \in Nat
    BY <1>2
  <2>2. p \div Capacity \in Nat /\ q \div Capacity \in Nat /\ p \div Capacity <= q \div Capacity
    BY <1>1, <2>1, Quotient
  <2> QED
    BY <1>2, <2>2 DEF Change
<1>3. CASE q < 0
  <2>1. -q \in Nat /\ -p \in Nat /\ -q <= -p
    BY <1>3
  <2>2. /\ (-p) \div Capacity \in Nat /\ (-q) \div Capacity \in Nat
        /\ (-q) \div Capacity <= (-p) \div Capacity
    BY <1>1, <2>1, Quotient
  <2> QED
    BY <1>3, <2>2 DEF Change
<1>4. CASE p < 0 /\ q >= 0
  <2>1. -p \in Nat /\ q \in Nat
    BY <1>4
  <2>2. (-p) \div Capacity \in Nat /\ q \div Capacity \in Nat
    BY <2>1, Quotient
  <2> QED
    BY <1>4, <2>2 DEF Change
<1> QED
  BY <1>2, <1>3, <1>4

(* Power that is less by Capacity * n changes the temperature by n less at   *)
(* most.                                                                     *)
LEMMA ChangeLipschitz ==
  ASSUME NEW p \in Int, NEW n \in Nat
  PROVE  /\ Capacity * n \in Nat
         /\ Change(p - Capacity * n) >= Change(p) - n
<1>0. Capacity \in Nat /\ Capacity > 0
  BY ThermalAssumption
<1>1. Capacity * n \in Nat
  BY <1>0
<1>2. ASSUME NEW z \in Nat
      PROVE  Capacity * z \in Nat /\ (Capacity * z) \div Capacity <= z
  <2> DEFINE x == (Capacity * z) \div Capacity
  <2>1. Capacity * z \in Nat
    BY <1>0
  <2>2. x \in Nat /\ Capacity * x <= Capacity * z /\ Capacity * x \in Nat
    BY <2>1, Quotient
  <2> HIDE DEF x
  <2>3. Capacity * x < Capacity * z + Capacity
    BY <1>0, <2>1, <2>2
  <2>4. x <= z
    BY <2>2, <2>3, Multiples
  <2> QED
    BY <2>1, <2>4 DEF x
<1>3. CASE p < 0
  <2> DEFINE x == (-p) \div Capacity
             y == (-(p - Capacity * n)) \div Capacity
  <2>1. -p \in Nat /\ -(p - Capacity * n) \in Nat
    BY <1>1, <1>3
  <2>2. /\ x \in Nat /\ Capacity * x \in Nat /\ -p < Capacity * x + Capacity
        /\ y \in Nat /\ Capacity * y \in Nat /\ Capacity * y <= -(p - Capacity * n)
    BY <2>1, Quotient
  <2>3. Change(p) = -x /\ Change(p - Capacity * n) = -y
    BY <1>1, <1>3 DEF Change
  <2> HIDE DEF x, y
  <2>4. Capacity * (x + n) = Capacity * x + Capacity * n
    BY <1>0, <2>2
  <2>5. Capacity * y < Capacity * (x + n) + Capacity
    BY <1>0, <1>1, <2>2, <2>4
  <2>6. y <= x + n
    BY <2>2, <2>5, Multiples
  <2> QED
    BY <1>1, <2>2, <2>3, <2>6
<1>4. CASE p >= 0
  <2> DEFINE x == p \div Capacity
             rest == p - Capacity * n
  <2>1. /\ x \in Nat /\ Capacity * x \in Nat /\ Capacity * x <= p
        /\ p < Capacity * x + Capacity
    BY <1>4, Quotient
  <2>2. Change(p) = x
    BY <1>4 DEF Change
  <2> HIDE DEF x
  <2>3. CASE rest >= 0
    <3> DEFINE y == rest \div Capacity
    <3>1. rest \in Nat /\ Change(rest) = y
      BY <1>1, <2>3 DEF Change
    <3>2. y \in Nat /\ Capacity * y \in Nat /\ rest < Capacity * y + Capacity
      BY <3>1, Quotient
    <3> HIDE DEF y
    <3>3. Capacity * (y + n) = Capacity * y + Capacity * n
      BY <1>0, <3>2
    <3>4. Capacity * x < Capacity * (y + n) + Capacity
      BY <1>0, <1>1, <2>1, <3>2, <3>3
    <3>5. x <= y + n
      BY <2>1, <3>2, <3>4, Multiples
    <3> QED
      BY <1>1, <2>1, <2>2, <3>1, <3>2, <3>5
  <2>4. CASE rest < 0
    <3> DEFINE y == (-rest) \div Capacity
    <3>1. -rest \in Nat /\ Change(rest) = -y
      BY <1>1, <2>4 DEF Change
    <3>2. y \in Nat /\ Capacity * y \in Nat /\ Capacity * y <= -rest
      BY <3>1, Quotient
    <3> HIDE DEF y
    <3>3. Capacity * (y + x) = Capacity * y + Capacity * x
      BY <1>0, <2>1, <3>2
    <3>4. Capacity * (y + x) < Capacity * n + Capacity
      BY <1>0, <1>1, <2>1, <3>2, <3>3
    <3>5. y + x <= n
      BY <2>1, <3>2, <3>4, Multiples
    <3> QED
      BY <1>1, <2>1, <2>2, <3>1, <3>2, <3>5
  <2> QED
    BY <1>1, <1>4, <2>3, <2>4
<1> QED
  BY <1>1, <1>3, <1>4

-----------------------------------------------------------------------------
(* The thermostat.  Where a step leads from t at a given heater power, with  *)
(* nothing injected and before the clamp.                                    *)
Outflow(t, power) == Internal + power - Conductance * (t - Ambient)
Heads(t, power) == t + Change(Outflow(t, power))

(* Warmer stays warmer, and more power does not make it colder.              *)
LEMMA HeadsMonotonic ==
  ASSUME NEW s \in Int, NEW t \in Int, s <= t,
         NEW p \in Int, NEW q \in Int, p <= q
  PROVE  Heads(s, p) \in Int /\ Heads(t, q) \in Int /\ Heads(s, p) <= Heads(t, q)
<1>0. /\ Capacity \in Nat /\ Conductance \in Nat /\ Conductance <= Capacity
      /\ Ambient \in Int /\ Internal \in Int
  BY ThermalAssumption DEF StableIntegration
<1> DEFINE n == t - s
           x == Outflow(s, p)
           y == Outflow(t, q)
<1>1. n \in Nat /\ t = s + n
  OBVIOUS
<1>2. x \in Int /\ y \in Int /\ y >= x - Conductance * n /\ Conductance * n \in Nat
  <2>1. /\ Conductance * (t - Ambient) = Conductance * (s - Ambient) + Conductance * (t - s)
        /\ Conductance * (s - Ambient) \in Int /\ Conductance * (t - s) \in Nat
    BY <1>0, <1>1
  <2> QED
    BY <1>0, <2>1 DEF Outflow
<1> HIDE DEF n, x, y
<1>3. Capacity * n \in Nat /\ Conductance * n <= Capacity * n
  BY <1>0, <1>1
<1>4. y >= x - Capacity * n /\ x - Capacity * n \in Int
  BY <1>2, <1>3
<1>5. /\ Change(y) \in Int /\ Change(x - Capacity * n) \in Int
      /\ Change(x - Capacity * n) <= Change(y)
  BY <1>2, <1>4, ChangeMonotonic
<1>6. Change(x - Capacity * n) >= Change(x) - n
  BY <1>1, <1>2, ChangeLipschitz
<1>7. Change(x) \in Int
  BY <1>2, ChangeMonotonic
<1> QED
  BY <1>1, <1>5, <1>6, <1>7 DEF Heads, x, y

(* The thresholds and what blurs them.                                       *)
LEMMA Thresholds ==
  /\ Cold \in Int /\ Warm \in Int /\ Margin \in Nat
  /\ Cold - Margin \in Int /\ Cold + Margin \in Int
  /\ Warm - Margin \in Int /\ Warm + Margin \in Int
  /\ 0 <= Heater /\ Heater \in Int /\ AbsoluteZero \in Int
  /\ Internal \in Int /\ Conductance \in Int /\ Ambient \in Int
<1>1. Cold \in Int /\ Warm \in Int /\ Ambient \in Int
  BY ThermalAssumption
<1>2. Internal \in Nat /\ Heater \in Nat /\ Conductance \in Nat /\ Margin \in Nat
  BY ThermalAssumption
<1>3. AbsoluteZero \in Int
  BY ThermalAssumption
<1> QED
  BY <1>1, <1>2, <1>3

(* The edges of the band are where a step leads from there.                  *)
LEMMA Edges ==
  /\ Lower = Heads(Cold - Margin, 0) /\ Upper = Heads(Warm + Margin, Heater)
  /\ Lower \in Int /\ Upper \in Int
<1>1. PICK low, high : low = Cold - Margin /\ high = Warm + Margin
  OBVIOUS
<1>2. low \in Int /\ high \in Int
  BY <1>1, Thresholds
<1>3. Heads(low, 0) \in Int /\ Heads(high, Heater) \in Int
  <2>1. low <= low /\ high <= high /\ 0 <= 0 /\ 0 \in Int /\ Heater <= Heater /\ Heater \in Int
    BY <1>2, Thresholds
  <2>2. Heads(low, 0) \in Int
    BY ONLY <1>2, <2>1, HeadsMonotonic
  <2>3. Heads(high, Heater) \in Int
    BY ONLY <1>2, <2>1, HeadsMonotonic
  <2> QED
    BY <2>2, <2>3
<1>4. Internal + 0 - Conductance * (low - Ambient) = Internal - Conductance * (low - Ambient)
  BY <1>2, Thresholds
<1>5. Lower = Heads(low, 0)
  BY <1>1, <1>4 DEF Lower, Heads, Outflow
<1>6. Upper = Heads(high, Heater)
  BY <1>1, Zenon DEF Upper, Heads, Outflow
<1> QED
  BY <1>1, <1>3, <1>5, <1>6

(* From inside the band, with the heater on below it and off above it, a     *)
(* step leads into the band.                                                 *)
LEMMA BandIsClosed ==
  ASSUME WellSized, NEW t \in Int, Lower <= t, t <= Upper, NEW power \in {0, Heater},
         t < Cold - Margin => power = Heater, t > Warm + Margin => power = 0
  PROVE  Heads(t, power) \in Int /\ Lower <= Heads(t, power) /\ Heads(t, power) <= Upper
<1>0. PICK low, high : low = Cold - Margin /\ high = Warm + Margin
  OBVIOUS
<1>1. /\ Lower = Heads(low, 0) /\ Upper = Heads(high, Heater)
      /\ Lower \in Int /\ Upper \in Int /\ low \in Int /\ high \in Int
      /\ 0 <= Heater /\ Heater \in Int /\ power \in Int /\ 0 <= power /\ power <= Heater
      /\ (t < low => power = Heater) /\ (t > high => power = 0)
  BY <1>0, Edges, Thresholds
<1>2. /\ Heads(Lower, Heater) >= Lower /\ Heads(Upper, 0) <= Upper
      /\ Heads(Lower, Heater) \in Int /\ Heads(Upper, 0) \in Int
  <2>1. /\ Internal \in Int /\ Conductance \in Int /\ Ambient \in Int
    BY ThermalAssumption
  <2>2. /\ Outflow(Lower, Heater) \in Int /\ Outflow(Lower, Heater) >= 0
    BY <1>1, <2>1 DEF Outflow, WellSized
  <2>3. Outflow(Upper, 0) \in Int /\ Outflow(Upper, 0) <= 0
    <3>1. Internal + 0 - Conductance * (Upper - Ambient) = Internal - Conductance * (Upper - Ambient)
      BY <1>1, <2>1
    <3>2. Internal - Conductance * (Upper - Ambient) \in Int
      BY <1>1, <2>1
    <3> QED
      BY <3>1, <3>2 DEF Outflow, WellSized
  <2>4. 0 \in 0..Capacity
    BY ThermalAssumption
  <2>5. Change(Outflow(Lower, Heater)) >= 0 /\ Change(Outflow(Lower, Heater)) \in Int
    BY <2>2, <2>4, CoupledChange
  <2>6. Change(Outflow(Upper, 0)) <= 0 /\ Change(Outflow(Upper, 0)) \in Int
    BY <2>3, <2>4, CoupledChange
  <2> QED
    BY <1>1, <2>5, <2>6 DEF Heads
<1>3. Heads(t, power) \in Int
  BY <1>1, HeadsMonotonic
<1>4. Lower <= Heads(t, power)
  <2>1. CASE t < low
    <3>1. Heads(Lower, Heater) <= Heads(t, power)
      BY <1>1, <2>1, HeadsMonotonic
    <3> QED
      BY <1>1, <1>2, <1>3, <3>1
  <2>2. CASE t >= low
    <3> DEFINE off == 0
    <3>1. low <= t /\ off \in Int /\ off <= power
      BY <1>1, <2>2
    <3> HIDE DEF off
    <3>2. Heads(low, off) <= Heads(t, power)
      BY <1>1, <3>1, HeadsMonotonic
    <3>3. Heads(low, 0) <= Heads(t, power)
      BY <3>2 DEF off
    <3> QED
      BY <1>1, <3>3
  <2> QED
    BY <1>1, <2>1, <2>2
<1>5. Heads(t, power) <= Upper
  <2>1. CASE t > high
    <3>1. Heads(t, power) <= Heads(Upper, 0)
      BY <1>1, <2>1, HeadsMonotonic
    <3> QED
      BY <1>1, <1>2, <1>3, <3>1
  <2>2. CASE t <= high
    <3>1. Heads(t, power) <= Heads(high, Heater)
      BY <1>1, <2>2, HeadsMonotonic
    <3> QED
      BY <1>1, <3>1
  <2> QED
    BY <1>1, <2>1, <2>2
<1> QED
  BY <1>3, <1>4, <1>5

-----------------------------------------------------------------------------
(* The heater is commanded as the temperature last seen asks for.            *)
Obeyed ==
  running /\ seen.temperature # None =>
    /\ seen.temperature < Cold => commanded
    /\ ~(seen.temperature < Cold) /\ ~(seen.temperature <= Warm) => ~commanded

LEMMA EmissionObeyed ==
  ASSUME NEW on \in BOOLEAN, EmitTelemetry(on)
  PROVE  Obeyed'
<1>1. CASE running' = FALSE
  BY <1>1 DEF Obeyed
<1>2. CASE \E t, status :
             /\ seen' = [temperature |-> t, status |-> status]
             /\ commanded' = Answered(t, on)
  <2>1. PICK t, status : /\ seen' = [temperature |-> t, status |-> status]
                         /\ commanded' = Answered(t, on)
    BY <1>2
  <2>2. seen'.temperature = t
    BY <2>1
  <2> QED
    BY <2>1, <2>2 DEF Obeyed, Answered, Reaction
<1> QED
  BY <1>1, <1>2 DEF EmitTelemetry

LEMMA ObeyedInvariant == Spec => [](commanded \in BOOLEAN /\ Obeyed)
<1> DEFINE Inv == commanded \in BOOLEAN /\ Obeyed
<1>1. Init => Inv
  BY DEF Init, Obeyed
<1>2. Inv /\ [Next]_vars => Inv'
  <2> SUFFICES ASSUME Inv, [Next]_vars PROVE Inv'
    OBVIOUS
  <2>0. ASSUME NEW on \in BOOLEAN, EmitTelemetry(on)
        PROVE  commanded' \in BOOLEAN
    BY <2>0 DEF EmitTelemetry, Answered, Reaction
  <2>1. CASE PhysicalStep \/ InjectFaultStep
    <3>1. EmitTelemetry(commanded)
      BY <2>1 DEF PhysicalStep, InjectFaultStep
    <3> QED
      BY <3>1, <2>0, EmissionObeyed
  <2>2. CASE SendCommandStep
    BY <2>2, <2>0, EmissionObeyed DEF SendCommandStep
  <2>3. CASE OverrideEnds \/ UNCHANGED vars
    BY <2>3 DEF OverrideEnds, vars, Obeyed
  <2> QED
    BY <2>1, <2>2, <2>3 DEF Next
<1> QED
  BY <1>1, <1>2, PTL DEF Spec

(* With nothing injected a tick is a step of Heads, clamped.                 *)
LEMMA CleanTick ==
  ASSUME ThermalInv, Clean, commanded \in BOOLEAN
  PROVE  \E power \in {0, Heater} : /\ power = (IF commanded THEN Heater ELSE 0)
                                    /\ Ticked = Floor(Heads(temperature, power))
<1>1. \A name \in Overridden : over[name] = None
  BY DEF Clean
<1>2. /\ Temperature = temperature /\ Environment = Ambient /\ Coupling = Conductance
      /\ HeaterPower = IF commanded THEN Heater ELSE 0
  BY <1>1 DEF Temperature, Environment, Coupling, HeaterPower, HeaterEnabled, Resolve,
              Overridden, Clean
<1> WITNESS (IF commanded THEN Heater ELSE 0) \in {0, Heater}
<1> QED
  BY <1>2 DEF Ticked, Net, Heads, Outflow

(* What a temperature well outside the thresholds is seen as.                *)
LEMMA SeenOutside ==
  ASSUME Discerned, NEW f \in TemperatureField, NEW t \in Int
  PROVE  /\ t < Cold - Margin => Carried(f, t) < Cold
         /\ t > Warm + Margin /\ Cold <= Warm => ~(Carried(f, t) < Cold)
         /\ t > Warm + Margin => ~(Carried(f, t) <= Warm)
         /\ t >= Cold + Margin => ~(Carried(f, t) < Cold)
         /\ t <= Warm - Margin => Carried(f, t) <= Warm
<1>1. f \in Field
  BY ThermalAssumption
<1>2. PICK a, b, c, d :
        a = Cold - Margin - 1 /\ b = Cold + Margin /\ c = Warm - Margin /\ d = Warm + Margin + 1
  OBVIOUS
<1>3. /\ a \in Int /\ b \in Int /\ c \in Int /\ d \in Int /\ Cold \in Int /\ Warm \in Int
      /\ (t < Cold - Margin => t <= a) /\ (t > Warm + Margin => d <= t)
      /\ (t >= Cold + Margin => b <= t) /\ (t <= Warm - Margin => t <= c)
  BY <1>2, Thresholds
<1>4. /\ Carried(f, a) < Cold /\ Cold <= Carried(f, b)
      /\ Carried(f, c) <= Warm /\ Warm < Carried(f, d)
  BY <1>2 DEF Discerned
<1>5. PICK s, ca, cb, cc, cd :
        /\ s = Carried(f, t) /\ ca = Carried(f, a) /\ cb = Carried(f, b)
        /\ cc = Carried(f, c) /\ cd = Carried(f, d)
  OBVIOUS
<1>6. /\ s \in Int /\ ca \in Int /\ cb \in Int /\ cc \in Int /\ cd \in Int
      /\ (t <= a => s <= ca) /\ (d <= t => cd <= s) /\ (b <= t => cb <= s) /\ (t <= c => s <= cc)
  <2>1. s \in Int
    <3>1. t <= t
      OBVIOUS
    <3> QED
      BY <1>1, <1>5, <3>1, WireKeepsOrder
  <2>2. ca \in Int /\ (t <= a => s <= ca)
    <3>1. a <= a
      BY <1>3
    <3> QED
      BY <1>1, <1>3, <1>5, <3>1, WireKeepsOrder
  <2>3. cb \in Int /\ (b <= t => cb <= s)
    <3>1. b <= b
      BY <1>3
    <3> QED
      BY <1>1, <1>3, <1>5, <3>1, WireKeepsOrder
  <2>4. cc \in Int /\ (t <= c => s <= cc)
    <3>1. c <= c
      BY <1>3
    <3> QED
      BY <1>1, <1>3, <1>5, <3>1, WireKeepsOrder
  <2>5. cd \in Int /\ (d <= t => cd <= s)
    <3>1. d <= d
      BY <1>3
    <3> QED
      BY <1>1, <1>3, <1>5, <3>1, WireKeepsOrder
  <2> QED
    BY <2>1, <2>2, <2>3, <2>4, <2>5
<1> QED
  BY <1>3, <1>4, <1>5, <1>6

(* The thermostat holds its band: with nothing injected, and whatever the    *)
(* scenario commands and the wire rounds, a node whose temperature the OBC   *)
(* has been sent stays within a step of the thresholds, for every node, wire *)
(* layout and pair of thresholds whose heater and environment are strong     *)
(* enough at its edges.                                                      *)
THEOREM BandIsHeld == ASSUME WellSized, Discerned PROVE Spec => BandHeld
<1> DEFINE Inv == /\ ThermalInv /\ commanded \in BOOLEAN /\ Obeyed
                  /\ field \in TemperatureField
           Seen == Clean /\ InBand /\ seen.temperature = Carried(field, temperature)
<1>1. ASSUME Inv, [Next]_vars, Seen
      PROVE  InBand'
  <2>0. /\ Lower' = Lower /\ Upper' = Upper
        /\ Lower \in Int /\ Upper \in Int /\ Cold \in Int /\ Warm \in Int
        /\ Cold <= Warm /\ None \notin Int
        /\ temperature \in Int /\ AbsoluteZero \in Int /\ temperature >= AbsoluteZero
        /\ Lower <= temperature /\ temperature <= Upper
    BY <1>1, Edges, ThermalAssumption DEF WellSized, ThermalInv, InBand, Lower, Upper, Change
  <2>1. CASE temperature' = temperature
    BY <2>0, <2>1 DEF InBand
  <2>2. CASE temperature' # temperature
    <3>1. temperature' = Ticked /\ running
      BY <1>1, <2>2 DEF Next, PhysicalStep, InjectFaultStep, SendCommandStep, OverrideEnds, vars
    <3>2. PICK power \in {0, Heater} :
            /\ power = (IF commanded THEN Heater ELSE 0)
            /\ Ticked = Floor(Heads(temperature, power))
      BY <1>1, CleanTick
    <3>3. /\ temperature < Cold - Margin => power = Heater
          /\ temperature > Warm + Margin => power = 0
      <4>1. PICK s : s = Carried(field, temperature)
        OBVIOUS
      <4>2. /\ temperature < Cold - Margin => s < Cold
            /\ temperature > Warm + Margin => ~(s < Cold) /\ ~(s <= Warm)
        BY <1>1, <2>0, <4>1, SeenOutside
      <4>3. s \in Int
        <5>1. temperature <= temperature /\ field \in Field
          BY <1>1, <2>0, ThermalAssumption
        <5> QED
          BY <2>0, <4>1, <5>1, WireKeepsOrder
      <4>4. seen.temperature = s /\ seen.temperature # None
        BY <1>1, <2>0, <4>1, <4>3
      <4>5. /\ s < Cold => commanded
            /\ ~(s < Cold) /\ ~(s <= Warm) => ~commanded
        BY <1>1, <3>1, <4>4 DEF Obeyed
      <4> QED
        BY <3>2, <4>2, <4>5
    <3>4. /\ Heads(temperature, power) \in Int
          /\ Lower <= Heads(temperature, power) /\ Heads(temperature, power) <= Upper
      BY <2>0, <3>3, BandIsClosed
    <3>5. Lower <= Ticked /\ Ticked <= Upper
      BY <2>0, <3>2, <3>4 DEF Floor
    <3> QED
      BY <2>0, <3>1, <3>5 DEF InBand
  <2> QED
    BY <2>1, <2>2
<1>2. Inv /\ [Next]_vars => [Seen => InBand']_vars
  BY <1>1
<1> QED
  BY <1>2, ThermalInvariant, FieldInvariant, ObeyedInvariant, PTL DEF Spec, BandHeld

-----------------------------------------------------------------------------
(* After a step in which a rule has switched the heater on the node is colder*)
(* than its threshold asks for, but for what blurs it, and warmer after one  *)
(* that switched it off.                                                     *)
Answering ==
  switched /\ running /\ Clean =>
    /\ commanded => temperature < Cold + Margin
    /\ ~commanded => temperature > Warm - Margin

(* With nothing injected the node reports its temperature.                   *)
LEMMA CleanReport ==
  ASSUME Clean'
  PROVE  Reported' = temperature'
BY DEF Clean, Reported, Temperature, Resolve, Overridden

(* What the OBC answers to a temperature, from what it is seen as.           *)
LEMMA AnswerToSeen ==
  ASSUME Discerned, NEW f \in TemperatureField, NEW t \in Int, NEW on \in BOOLEAN
  PROVE  /\ ~on /\ Answered(Carried(f, t), on) => t < Cold + Margin
         /\ on /\ ~Answered(Carried(f, t), on) => t > Warm - Margin
<1>1. PICK s : s = Carried(f, t)
  OBVIOUS
<1>2. PICK low, high : low = Cold + Margin /\ high = Warm - Margin
  OBVIOUS
<1>3. low \in Int /\ high \in Int
  BY <1>2, Thresholds
<1>4. (t >= low => ~(s < Cold)) /\ (t <= high => s <= Warm)
  BY <1>1, <1>2, SeenOutside
<1>5. (t >= low \/ t < low) /\ (t <= high \/ t > high)
  BY <1>3
<1>6. ~on /\ Answered(s, on) => s < Cold
  BY Zenon DEF Answered, Reaction
<1>7. on /\ ~Answered(s, on) => ~(s <= Warm)
  BY Zenon DEF Answered, Reaction
<1> QED
  BY ONLY <1>1, <1>2, <1>4, <1>5, <1>6, <1>7, Zenon

(* Whenever a rule has just switched the heater, the temperature asked for it.*)
LEMMA AnsweringInvariant ==
  ASSUME LabelsFit, Discerned
  PROVE  Spec => []Answering
<1> DEFINE Base == ThermalInv /\ field \in TemperatureField /\ field \in Field /\ commanded \in BOOLEAN
           Inv == Answering
<1>1. Init => Inv
  BY DEF Init, Answering
<1>2. Base /\ Base' /\ Inv /\ [Next]_vars => Inv'
  <2> SUFFICES ASSUME Base, Base', Inv, [Next]_vars, switched', running', Clean'
               PROVE  /\ commanded' => temperature' < Cold + Margin
                      /\ ~commanded' => temperature' > Warm - Margin
    BY DEF Answering
  <2>1. CASE PhysicalStep
    <3>1. PICK on, t, f : on = commanded /\ t = temperature' /\ f = field
      OBVIOUS
    <3>2. EmitTelemetry(on) /\ field' = field /\ commanded' # on
      BY <2>1, <3>1 DEF PhysicalStep
    <3>3. on \in BOOLEAN /\ t \in Int /\ f \in TemperatureField /\ commanded' \in BOOLEAN
      BY <3>1 DEF ThermalInv
    <3>4. commanded' = Answered(Carried(f, t), on)
      BY <3>1, <3>2, <3>3, Emission, CleanReport
    <3>5. /\ ~on /\ commanded' => t < Cold + Margin
          /\ on /\ ~commanded' => t > Warm - Margin
      BY <3>3, <3>4, AnswerToSeen, Zenon
    <3>6. (commanded' => ~on) /\ (~commanded' => on)
      BY <3>2, <3>3, Zenon
    <3> QED
      BY <3>1, <3>5, <3>6, Zenon
  <2>2. CASE InjectFaultStep \/ SendCommandStep \/ OverrideEnds
    BY <2>2 DEF InjectFaultStep, SendCommandStep, OverrideEnds
  <2>3. CASE UNCHANGED vars
    BY <2>3 DEF vars, Answering, Clean
  <2> QED
    BY <2>1, <2>2, <2>3 DEF Next
<1> QED
  BY <1>1, <1>2, ThermalInvariant, FieldInvariant, ObeyedInvariant, PTL DEF Spec

(* Where a step leads from about a threshold, with the heater as the rules   *)
(* have just set it.                                                         *)
LEMMA StepsBack ==
  ASSUME FarApart, NEW t \in Int
  PROVE  /\ t < Cold + Margin => /\ Floor(Heads(t, Heater)) \in Int
                                 /\ Floor(Heads(t, Heater)) <= Warm - Margin
         /\ t > Warm - Margin => /\ Floor(Heads(t, 0)) \in Int
                                 /\ Floor(Heads(t, 0)) >= Cold + Margin
<1>0. PICK low, high : low = Cold + Margin /\ high = Warm - Margin
  OBVIOUS
<1>1. /\ low \in Int /\ high \in Int /\ Heater \in Int /\ 0 \in Int
      /\ AbsoluteZero \in Int /\ AbsoluteZero <= high
      /\ Internal \in Int /\ Conductance \in Int /\ Ambient \in Int
  BY <1>0, Thresholds DEF FarApart
<1>2. Heads(low, Heater) <= high
  BY <1>0, Zenon DEF FarApart, Heads, Outflow
<1>3. Heads(high, 0) >= low
  <2>1. Internal + 0 - Conductance * (high - Ambient) = Internal - Conductance * (high - Ambient)
    BY <1>1
  <2>2. high + Change(Internal - Conductance * (high - Ambient)) >= low
    BY <1>0, Zenon DEF FarApart
  <2> QED
    BY <2>1, <2>2 DEF Heads, Outflow
<1>4. ASSUME t < low
      PROVE  Floor(Heads(t, Heater)) \in Int /\ Floor(Heads(t, Heater)) <= high
  <2>1. /\ Heads(t, Heater) \in Int /\ Heads(low, Heater) \in Int
        /\ Heads(t, Heater) <= Heads(low, Heater)
    <3>1. t <= low /\ Heater <= Heater
      BY <1>1, <1>4
    <3> QED
      BY <1>1, <3>1, HeadsMonotonic
  <2> QED
    BY <1>1, <1>2, <2>1 DEF Floor
<1>5. ASSUME t > high
      PROVE  Floor(Heads(t, 0)) \in Int /\ Floor(Heads(t, 0)) >= low
  <2>1. /\ Heads(t, 0) \in Int /\ Heads(high, 0) \in Int
        /\ Heads(high, 0) <= Heads(t, 0)
    <3>1. high <= t /\ 0 <= 0
      BY <1>1, <1>5
    <3> QED
      BY <1>1, <3>1, HeadsMonotonic
  <2> QED
    BY <1>1, <1>3, <2>1 DEF Floor
<1> QED
  BY <1>0, <1>4, <1>5

(* The heater does not chatter: for every node and wire layout whose         *)
(* thresholds are further apart than a step and what the wire blurs, a step  *)
(* after one that switched it does not switch it back.                       *)
THEOREM HeaterRests == ASSUME LabelsFit, FarApart, Discerned PROVE Spec => NoChatter
<1> DEFINE Inv == /\ ThermalInv /\ field \in TemperatureField /\ field \in Field
                  /\ commanded \in BOOLEAN /\ Answering
           Rested == switched /\ Clean => ~switched'
<1>1. ASSUME Inv, ThermalInv', [Next]_vars, ~UNCHANGED vars, switched, Clean, switched'
      PROVE  FALSE
  <2>1. PhysicalStep
    BY <1>1 DEF Next, InjectFaultStep, SendCommandStep, OverrideEnds
  <2>2. PICK on, t, f, low, high :
          /\ on = commanded /\ t = temperature /\ f = field
          /\ low = Cold + Margin /\ high = Warm - Margin
    OBVIOUS
  <2>3. /\ EmitTelemetry(on) /\ field' = field /\ over' = over /\ faults' = faults
        /\ temperature' = Ticked /\ commanded' # on /\ running
    BY <1>1, <2>1, <2>2 DEF PhysicalStep
  <2>4. Clean'
    BY <1>1, <2>3 DEF Clean
  <2>5. commanded' = Answered(Carried(f, temperature'), on)
    BY <1>1, <2>2, <2>3, <2>4, Emission, CleanReport
  <2>6. PICK power \in {0, Heater} :
          /\ power = (IF commanded THEN Heater ELSE 0)
          /\ Ticked = Floor(Heads(temperature, power))
    BY <1>1, CleanTick
  <2>7. /\ t \in Int /\ (on => t < low) /\ (~on => t > high) /\ on \in BOOLEAN
        /\ f \in TemperatureField /\ low \in Int /\ high \in Int
    BY <1>1, <2>2, <2>3, Thresholds DEF ThermalInv, Answering
  <2>8. CASE on
    <3>1. PICK s : s = Floor(Heads(t, Heater))
      OBVIOUS
    <3>2. temperature' = s
      BY <2>2, <2>3, <2>6, <2>8, <3>1
    <3>3. s \in Int /\ s <= high
      BY <2>2, <2>7, <2>8, <3>1, StepsBack
    <3>4. Carried(f, s) <= Warm
      BY <1>1, <2>2, <2>7, <3>3, SeenOutside
    <3> QED
      BY <2>3, <2>5, <2>8, <3>2, <3>4, Zenon DEF Answered, Reaction
  <2>9. CASE ~on
    <3>1. PICK s : s = Floor(Heads(t, 0))
      OBVIOUS
    <3>2. temperature' = s
      BY <2>2, <2>3, <2>6, <2>9, <3>1
    <3>3. s \in Int /\ s >= low
      BY <2>2, <2>7, <2>9, <3>1, StepsBack
    <3>4. ~(Carried(f, s) < Cold)
      BY <1>1, <2>2, <2>7, <3>3, SeenOutside
    <3> QED
      BY <2>3, <2>5, <2>7, <2>9, <3>2, <3>4, Zenon DEF Answered, Reaction
  <2> QED
    BY <2>7, <2>8, <2>9
<1>2. Inv /\ ThermalInv' /\ [Next]_vars => [Rested]_vars
  BY <1>1
<1> QED
  BY <1>2, ThermalInvariant, FieldInvariant, ObeyedInvariant, AnsweringInvariant, PTL
     DEF Spec, NoChatter
=============================================================================
