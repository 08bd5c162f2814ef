----------------------------- MODULE Registry_proofs -----------------------------
(* What every read rests on: how much of an allowance a call may use, and what the  *)
(* seeding in front of it and the discovery of the chains may take and bring about.  *)
EXTENDS Registry, TLAPS

\* slice: a grant is at most what is left and what is asked for, and worth a call.
LEMMA ReadGrantFits ==
    ASSUME NEW total \in Nat, NEW used \in Nat, NEW perCall \in Nat
    PROVE  /\ Slice(total, used, perCall) \in Nat
           /\ Slice(total, used, perCall) <= perCall
           /\ used <= total => used + Slice(total, used, perCall) <= total
           /\ (used + perCall <= total /\ perCall >= MinSlice)
                  => Slice(total, used, perCall) = perCall
BY SMT DEF Slice, Lesser, MinSlice, None

\* What a call takes is at most what it was granted.
LEMMA CallsKeepTheirGrant ==
    ASSUME NEW grant \in Nat
    PROVE  \A d \in Spends(grant) : d \in Nat /\ d <= grant
BY DurationsAreNat DEF Spends

LEMMA RegistryInitOK == RegistryInit => RegistryTypeOK /\ (seeded => applied)
<1> SUFFICES ASSUME RegistryInit PROVE RegistryTypeOK /\ (seeded => applied)
    OBVIOUS
<1>1. moves \in 0 .. MaxMoves
    BY MaxMovesIsNat DEF RegistryInit
<1>2. inScope \subseteq Chains /\ applied \in BOOLEAN /\ seeded \in BOOLEAN /\ (seeded => applied)
    BY Zenon DEF RegistryInit
<1> QED BY <1>1, <1>2 DEF RegistryTypeOK

\* The registry's part of a step that only asks it.
LEMMA AskingKeepsRegistry ==
    ASSUME RegistryTypeOK, inScope' = inScope, moves' = moves,
           seeded' \in BOOLEAN, applied' \in BOOLEAN
    PROVE  RegistryTypeOK'
BY DEF RegistryTypeOK

LEMMA MovingKeepsRegistry ==
    ASSUME RegistryTypeOK, ScopeMoves
    PROVE  RegistryTypeOK' /\ seeded' = seeded /\ applied' = applied
BY MaxMovesIsNat DEF RegistryTypeOK, ScopeMoves

\* A flag is raised with the defaults only, and what is applied stays applied.
LEMMA EnsuringFits ==
    ASSUME NEW flag \in BOOLEAN, NEW has \in BOOLEAN, NEW grant \in Nat, flag => has,
           NEW s \in AfterEnsuring(flag, has, grant)
    PROVE  /\ s.flag \in BOOLEAN /\ s.has \in BOOLEAN /\ s.took \in Nat
           /\ s.took <= grant
           /\ s.flag => s.has
           /\ has => s.has
<1>1. CASE flag \/ grant = None
    <2>1. s = [flag |-> flag, has |-> has, took |-> 0]
        BY <1>1 DEF AfterEnsuring
    <2> QED BY <2>1
<1>2. CASE ~(flag \/ grant = None)
    <2>1. \/ s \in [flag : {Settled(TRUE)}, has : {TRUE}, took : Spends(grant)]
          \/ s \in [flag : {Settled(FALSE)}, has : {has, TRUE}, took : Spends(grant)]
        BY <1>2 DEF AfterEnsuring
    <2>2. s.took \in Spends(grant)
        BY <2>1
    <2>3. s.took \in Nat /\ s.took <= grant
        BY <2>2, CallsKeepTheirGrant
    <2>4. \/ s.flag = TRUE /\ s.has = TRUE
          \/ s.flag = FALSE /\ (s.has = has \/ s.has = TRUE)
        BY <2>1, Zenon DEF Settled
    <2> QED BY <2>3, <2>4
<1> QED BY <1>1, <1>2

\* The seeding in front of a read takes no more than the read may.
LEMMA SeedingFits ==
    ASSUME RegistryTypeOK, seeded => applied, NEW s \in AfterSeeding
    PROVE  /\ s.flag \in BOOLEAN /\ s.has \in BOOLEAN /\ s.took \in Nat
           /\ s.took <= ReadBudget /\ s.took <= InitBudget
           /\ s.flag => s.has
<1>1. ReadBudget \in Nat /\ InitBudget \in Nat /\ 0 \in Nat /\ 0 <= ReadBudget
    BY DEF ReadBudget, InitBudget
<1>2. /\ Slice(ReadBudget, 0, InitBudget) \in Nat
      /\ Slice(ReadBudget, 0, InitBudget) <= InitBudget
      /\ 0 + Slice(ReadBudget, 0, InitBudget) <= ReadBudget
    BY <1>1, ReadGrantFits
<1>3. /\ s.flag \in BOOLEAN /\ s.has \in BOOLEAN /\ s.took \in Nat
      /\ s.took <= Slice(ReadBudget, 0, InitBudget)
      /\ s.flag => s.has
    BY <1>2, EnsuringFits DEF AfterSeeding, RegistryTypeOK
<1> QED BY <1>1, <1>2, <1>3

\* So does the discovery with the seeding in front of it.
LEMMA DiscoveryFits ==
    ASSUME RegistryTypeOK, seeded => applied, NEW s \in AfterDiscovery
    PROVE  /\ s.flag \in BOOLEAN /\ s.has \in BOOLEAN /\ s.took \in Nat
           /\ s.took <= ReadBudget
           /\ s.flag => s.has
<1>1. PICK x \in AfterSeeding :
          s \in [flag : {x.flag}, has : {x.has},
                 took : {x.took + d : d \in Spends(Slice(ReadBudget, x.took, ProbeBudget))}]
    BY DEF AfterDiscovery
<1>2. PICK d \in Spends(Slice(ReadBudget, x.took, ProbeBudget)) : s.took = x.took + d
    BY <1>1
<1>3. s.flag = x.flag /\ s.has = x.has
    BY <1>1
<1>4. /\ x.flag \in BOOLEAN /\ x.has \in BOOLEAN /\ x.took \in Nat
      /\ x.took <= ReadBudget
      /\ x.flag => x.has
    BY SeedingFits
<1>5. ReadBudget \in Nat /\ ProbeBudget \in Nat
    BY DEF ReadBudget, ProbeBudget
<1>6. /\ Slice(ReadBudget, x.took, ProbeBudget) \in Nat
      /\ x.took + Slice(ReadBudget, x.took, ProbeBudget) <= ReadBudget
    BY <1>4, <1>5, ReadGrantFits
<1>7. d \in Nat /\ d <= Slice(ReadBudget, x.took, ProbeBudget)
    BY <1>2, <1>6, CallsKeepTheirGrant
<1> QED BY <1>2, <1>3, <1>4, <1>5, <1>6, <1>7

================================================================================
