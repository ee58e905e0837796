---------------------------- MODULE HarnessProofs ----------------------------
(***************************************************************************)
(* A manifest that says it is verified is covered by fixtures, and what    *)
(* the hub's reports, gates and plans say of a harness holds, for every    *)
(* set of harnesses, every market and every number of changes.             *)
(*                                                                         *)
(* HarnessIInv adds to VerifiedIsCovered what a repair still has in hand:  *)
(* the manifest it will write is covered too, and fixtures are only ever   *)
(* added.  HubIInv adds that a manifest that starts a wrapper finds it.    *)
(* The queue and the plans need of the state little more than its types:   *)
(* what they rest on is that a list in order holds each element once.      *)
(***************************************************************************)
EXTENDS HarnessPlans, FiniteSetTheorems, SequenceTheorems, WellFoundedInduction, TLAPS

Work ==
    {NoWork}
    \cup [kind : {"install"}, name : Name, allowBlocked : BOOLEAN]
    \cup [kind : {"wrapper", "overlay"}, name : Name, cap : Capability, manifest : Manifest]

HarnessTypeOK ==
    /\ market \in Market
    /\ portable \in [Capability -> Manifest \cup {NoManifest}]
    /\ overlay \in [Capability -> Manifest \cup {NoManifest}]
    /\ work \in Work

\* A manifest of a capability is covered if it says that it is verified.
Honest(c, man) == man # NoManifest /\ man.verified => Covered(c, man.parser)

RepairHonest ==
    work # NoWork /\ work.kind # "install" => Honest(work.cap, work.manifest)

HarnessIInv == HarnessTypeOK /\ VerifiedIsCovered /\ RepairHonest

-----------------------------------------------------------------------------
(* Lemmas about numbers, records and manifests.                            *)

Less == {ss \in Nat \X Nat : ss[1] < ss[2]}

LEMMA LessWellFounded == IsWellFoundedOn(Less, Nat)
  BY NatLessThanWellFounded, Zenon DEF OpToRel, Less

LEMMA HasLeast ==
    ASSUME NEW S \in SUBSET Nat, S # {}
    PROVE  \E m \in S : \A n \in S : m <= n
  <1>1. \E m \in S : \A n \in S : <<n, m>> \notin Less
    BY LessWellFounded, WFMin, Zenon
  <1>2. ASSUME NEW m \in S, NEW n \in S, <<n, m>> \notin Less
        PROVE  m <= n
    <2>1. m \in Nat /\ n \in Nat /\ ~(n < m)
      BY <1>2 DEF Less
    <2>2. QED
      BY <2>1
  <1>3. QED
    BY <1>1, <1>2, Zenon

\* What a query finds are records of the market.
LEMMA HitsFacts ==
    ASSUME HarnessTypeOK, NEW q
    PROVE  Hits(q) \subseteq DOMAIN market /\ Hits(q) \in SUBSET Nat
  <1>1. market \in Seq(MarketRecord)
    BY MarketAssumption DEF HarnessTypeOK
  <1>2. Hits(q) \subseteq DOMAIN market
    BY DEF Hits
  <1>3. QED
    BY <1>1, <1>2

LEMMA FirstIn ==
    ASSUME NEW S \in SUBSET Nat, S # {}
    PROVE  First(S) \in S
  <1>1. \E i \in S : \A j \in S : i <= j
    BY HasLeast
  <1>2. QED
    BY <1>1 DEF First

\* The record a harness is evaluated by is one of the market's.
LEMMA RecordForType ==
    ASSUME HarnessTypeOK, NEW h \in Name
    PROVE  RecordFor(h) \in MarketRecord \cup {NoRecord}
  <1> DEFINE hits == IF answers[h].shape = "list" THEN Hits(h) ELSE {}
             named == {i \in hits : CapOf[market[i].name] = CapOf[h]}
             shown == {i \in hits : CapOf[market[i].display] = CapOf[h]}
             best == IF named # {} THEN named ELSE IF shown # {} THEN shown ELSE hits
  <1>1. hits \subseteq DOMAIN market /\ hits \in SUBSET Nat
    BY HitsFacts
  <1>2. RecordFor(h) = IF hits = {} THEN NoRecord ELSE market[First(best)]
    BY DEF RecordFor
  <1> HIDE DEF hits
  <1>3. CASE hits # {}
    <2>1. best \subseteq hits /\ best # {}
      BY <1>3
    <2> HIDE DEF best
    <2>2. First(best) \in DOMAIN market
      BY <1>1, <2>1, FirstIn
    <2>3. market \in Seq(MarketRecord)
      BY MarketAssumption DEF HarnessTypeOK
    <2>4. market[First(best)] \in MarketRecord
      BY <2>2, <2>3
    <2>5. QED
      BY <1>2, <1>3, <2>4
  <1>4. QED
    BY <1>2, <1>3

LEMMA MaxRiskType ==
    ASSUME NEW left \in Risk, NEW right \in Risk
    PROVE  MaxRisk(left, right) \in Risk
  BY DEF MaxRisk

LEMMA InferredRiskType ==
    ASSUME NEW record \in MarketRecord \cup {NoRecord}, NEW requested \in Risk
    PROVE  InferredRisk(record, requested) \in Risk
  <1>1. CASE record = NoRecord
    BY <1>1 DEF InferredRisk
  <1>2. CASE record # NoRecord
    BY <1>2, MaxRiskType DEF InferredRisk, MarketRecord
  <1>3. QED
    BY <1>1, <1>2

LEMMA ManifestForType ==
    ASSUME NEW name \in Name, NEW record \in MarketRecord \cup {NoRecord}
    PROVE  /\ ManifestFor(name, record) \in Manifest
           /\ ~ManifestFor(name, record).verified
  <1>1. "read" \in Risk
    <2>1. RiskOrder[1] = "read"
      BY DEF RiskOrder
    <2>2. QED
      BY <2>1 DEF Risk
  <1>2. InferredRisk(record, "read") \in Risk
    BY <1>1, InferredRiskType
  <1>3. NoModule \in Module \cup {NoModule} /\ "cli-anything.raw" \in Parser
    BY DEF Parser
  <1>4. QED
    BY <1>2, <1>3 DEF ManifestFor, Manifest

\* A regenerated manifest is a manifest, covered if the one on disk is.
LEMMA PreservedHonest ==
    ASSUME NEW c \in Capability, NEW existing \in Manifest \cup {NoManifest},
           NEW generated \in Manifest, ~generated.verified, Honest(c, existing)
    PROVE  /\ Preserved(existing, generated) \in Manifest
           /\ Honest(c, Preserved(existing, generated))
  <1>1. CASE existing # NoManifest /\ existing.verified /\ existing.parser = generated.parser
    <2>1. Preserved(existing, generated) = [generated EXCEPT !.verified = TRUE]
      BY <1>1 DEF Preserved
    <2>2. /\ [generated EXCEPT !.verified = TRUE] \in Manifest
          /\ [generated EXCEPT !.verified = TRUE].parser = existing.parser
      BY <1>1 DEF Manifest
    <2>3. Covered(c, existing.parser)
      BY <1>1 DEF Honest
    <2>4. QED
      BY <2>1, <2>2, <2>3 DEF Honest
  <1>2. CASE ~(existing # NoManifest /\ existing.verified
               /\ existing.parser = generated.parser)
    <2>1. Preserved(existing, generated) = generated
      BY <1>2 DEF Preserved
    <2>2. QED
      BY <2>1 DEF Honest
  <1>3. QED
    BY <1>1, <1>2

LEMMA WrittenHonest ==
    ASSUME HarnessIInv, NEW name \in Name, NEW record \in MarketRecord \cup {NoRecord}
    PROVE  /\ CapOf[name] \in Capability
           /\ Written(name, record) \in Manifest
           /\ Honest(CapOf[name], Written(name, record))
  <1>1. CapOf[name] \in Capability
    BY NameAssumption
  <1>2. /\ portable[CapOf[name]] \in Manifest \cup {NoManifest}
        /\ Honest(CapOf[name], portable[CapOf[name]])
    BY <1>1 DEF HarnessIInv, HarnessTypeOK, VerifiedIsCovered, Honest
  <1>3. QED
    BY <1>1, <1>2, ManifestForType, PreservedHonest DEF Written

\* Whatever harness_status is asked, it names a harness and the capability of its name.
LEMMA StatusFacts ==
    ASSUME HarnessTypeOK, NEW h \in Name
    PROVE  LET s == Status(h, TRUE) IN
           /\ s.record \in MarketRecord \cup {NoRecord}
           /\ s.name \in Name /\ s.cap = CapOf[s.name]
  <1> DEFINE record == RecordFor(h)
  <1>1. record \in MarketRecord \cup {NoRecord}
    BY RecordForType
  <1>2. (IF record = NoRecord THEN h ELSE record.name) \in Name
    BY <1>1 DEF MarketRecord
  <1> HIDE DEF record
  <1>3. Status(h, TRUE) = StatusOf(h, record)
    BY DEF Status, record
  <1>4. /\ StatusOf(h, record).record = record
        /\ StatusOf(h, record).name = (IF record = NoRecord THEN h ELSE record.name)
        /\ StatusOf(h, record).cap = CapOf[IF record = NoRecord THEN h ELSE record.name]
    BY DEF StatusOf
  <1>5. QED
    BY <1>1, <1>2, <1>3, <1>4

\* What evaluate_harness looks at is a manifest, and covered as those on disk are.
LEMMA EvaluationFacts ==
    ASSUME HarnessIInv, NEW h \in Name
    PROVE  LET e == Evaluation(h, TRUE) IN
           /\ e.status.record \in MarketRecord \cup {NoRecord}
           /\ e.status.cap \in Capability
           /\ e.manifest \in Manifest
           /\ Honest(e.status.cap, e.manifest)
  <1> DEFINE s == Status(h, TRUE)
  <1>1. /\ s.record \in MarketRecord \cup {NoRecord}
        /\ s.name \in Name /\ s.cap = CapOf[s.name]
    BY StatusFacts DEF HarnessIInv
  <1>2. Evaluation(h, TRUE).status = s /\ Evaluation(h, TRUE).manifest = OnDisk(s.name, s.record)
    BY DEF Evaluation, EvaluationOf, Assessment
  <1> HIDE DEF s
  <1>3. s.cap \in Capability
    BY <1>1, NameAssumption
  <1>4. /\ OnDisk(s.name, s.record) \in Manifest
        /\ Honest(s.cap, OnDisk(s.name, s.record))
    <2>1. CASE portable[s.cap] = NoManifest
      <3>1. OnDisk(s.name, s.record) = ManifestFor(s.name, s.record)
        BY <1>1, <2>1 DEF OnDisk
      <3>2. QED
        BY <1>1, <3>1, ManifestForType DEF Honest
    <2>2. CASE portable[s.cap] # NoManifest
      <3>1. OnDisk(s.name, s.record) = portable[s.cap]
        BY <1>1, <2>2 DEF OnDisk
      <3>2. QED
        BY <1>3, <2>2, <3>1 DEF HarnessIInv, HarnessTypeOK, VerifiedIsCovered, Honest
    <2>3. QED
      BY <2>1, <2>2
  <1>5. QED
    BY <1>1, <1>2, <1>3, <1>4

-----------------------------------------------------------------------------
(* What each operation owes.                                               *)

\* A manifest is covered by the fixtures there are after a step.
HonestNext(c, man) == man # NoManifest /\ man.verified => <<c, man.parser>> \in fixtures'

\* Fixtures stay, and the manifests on disk are covered after a step.
Kept ==
    /\ market' \in Market
    /\ fixtures \subseteq fixtures'
    /\ portable' \in [Capability -> Manifest \cup {NoManifest}]
    /\ overlay' \in [Capability -> Manifest \cup {NoManifest}]
    /\ \A c \in Capability : HonestNext(c, portable'[c]) /\ HonestNext(c, overlay'[c])

LEMMA CoveredStays ==
    ASSUME fixtures \subseteq fixtures', NEW c, NEW man, Honest(c, man)
    PROVE  HonestNext(c, man)
  BY DEF Honest, HonestNext, Covered

\* What is on disk is covered, so a step that only adds fixtures keeps it so.
LEMMA FilesKept ==
    ASSUME HarnessIInv, market' \in Market, fixtures \subseteq fixtures',
           UNCHANGED <<portable, overlay>>
    PROVE  Kept
  <1>1. \A c \in Capability : Honest(c, portable[c]) /\ Honest(c, overlay[c])
    BY DEF HarnessIInv, VerifiedIsCovered, Honest
  <1>2. QED
    BY <1>1, CoveredStays DEF Kept, HarnessIInv, HarnessTypeOK

\* A step that replaces one portable manifest by a covered one.
LEMMA PortableKept ==
    ASSUME HarnessIInv, NEW c \in Capability, NEW man \in Manifest, Honest(c, man),
           portable' = [portable EXCEPT ![c] = man],
           UNCHANGED <<market, overlay, fixtures>>
    PROVE  Kept
  <1>1. \A x \in Capability : Honest(x, portable'[x]) /\ Honest(x, overlay'[x])
    BY DEF HarnessIInv, HarnessTypeOK, VerifiedIsCovered, Honest
  <1>2. portable' \in [Capability -> Manifest \cup {NoManifest}]
    BY DEF HarnessIInv, HarnessTypeOK
  <1>3. QED
    BY <1>1, <1>2, CoveredStays DEF Kept, HarnessIInv, HarnessTypeOK

LEMMA AdaptKept ==
    ASSUME HarnessIInv, NEW h \in Name, AdaptWrite(h, TRUE),
           UNCHANGED <<market, overlay, fixtures>>
    PROVE  Kept
  <1> DEFINE s == Status(h, TRUE)
  <1>1. /\ s.record \in MarketRecord \cup {NoRecord} /\ s.name \in Name
    BY StatusFacts DEF HarnessIInv
  <1>2. portable' = [portable EXCEPT ![CapOf[s.name]] = Written(s.name, s.record)]
    BY DEF AdaptWrite, WriteManifest
  <1> HIDE DEF s
  <1>3. QED
    BY <1>1, <1>2, WrittenHonest, PortableKept

LEMMA SyncKept ==
    ASSUME HarnessIInv, NEW q, NEW limit, SyncMarket(q, limit),
           UNCHANGED <<market, overlay, fixtures>>
    PROVE  Kept
  <1> DEFINE mine(c) == {i \in SyncedRecords(q, limit) : CapOf[market[i].name] = c}
             one(c) == market[CHOOSE i \in mine(c) : TRUE]
  <1>1. ASSUME NEW c \in Capability, mine(c) # {}
        PROVE  one(c) \in MarketRecord /\ CapOf[one(c).name] = c
    <2>1. (CHOOSE i \in mine(c) : TRUE) \in mine(c)
      BY <1>1
    <2>2. market \in Seq(MarketRecord)
      BY MarketAssumption DEF HarnessIInv, HarnessTypeOK
    <2>3. SyncedRecords(q, limit) \subseteq DOMAIN market
      BY HitsFacts DEF SyncedRecords, Within, HarnessIInv
    <2>4. QED
      BY <2>1, <2>2, <2>3
  <1>2. portable' = [c \in Capability |->
            IF mine(c) = {} THEN portable[c] ELSE Written(one(c).name, one(c))]
    BY DEF SyncMarket
  <1> HIDE DEF mine, one
  <1>3. ASSUME NEW c \in Capability
        PROVE  portable'[c] \in Manifest \cup {NoManifest} /\ Honest(c, portable'[c])
    <2>1. CASE mine(c) = {}
      BY <1>2, <2>1 DEF HarnessIInv, HarnessTypeOK, VerifiedIsCovered, Honest
    <2>2. CASE mine(c) # {}
      <3>1. one(c) \in MarketRecord /\ one(c).name \in Name /\ CapOf[one(c).name] = c
        BY <1>1, <2>2 DEF MarketRecord
      <3>2. QED
        BY <1>2, <2>2, <3>1, WrittenHonest
    <2>3. QED
      BY <2>1, <2>2
  <1>4. portable' \in [Capability -> Manifest \cup {NoManifest}]
    BY <1>2, <1>3
  <1>5. \A c \in Capability : Honest(c, overlay[c])
    BY DEF HarnessIInv, VerifiedIsCovered, Honest
  <1>6. QED
    BY <1>3, <1>4, <1>5, CoveredStays DEF Kept, HarnessIInv, HarnessTypeOK

LEMMA EditKept ==
    ASSUME HarnessIInv, EditManifest
    PROVE  Kept
  <1>1. PICK c \in Capability :
            \/ /\ portable[c] # NoManifest
               /\ \/ portable' = [portable EXCEPT ![c].parser = "custom", ![c].verified = FALSE]
                  \/ portable' = [portable EXCEPT ![c].risk = "privileged", ![c].confirm = TRUE]
                  \/ portable' = [portable EXCEPT ![c].valid = ~portable[c].valid]
                  \/ /\ Covered(c, portable[c].parser)
                     /\ portable' = [portable EXCEPT ![c].verified = TRUE]
            \/ overlay[c] # NoManifest /\ portable' = [portable EXCEPT ![c] = overlay[c]]
    BY DEF EditManifest
  <1>2. UNCHANGED <<market, overlay, fixtures>>
    BY DEF EditManifest, host
  <1>3. /\ portable[c] \in Manifest \cup {NoManifest} /\ Honest(c, portable[c])
        /\ overlay[c] \in Manifest \cup {NoManifest} /\ Honest(c, overlay[c])
        /\ portable \in [Capability -> Manifest \cup {NoManifest}]
    BY DEF HarnessIInv, HarnessTypeOK, VerifiedIsCovered, Honest
  <1>4. "privileged" \in Risk /\ "custom" \in Parser
    <2>1. RiskOrder[4] = "privileged"
      BY DEF RiskOrder
    <2>2. QED
      BY <2>1 DEF Risk, Parser
  <1>5. \E man \in Manifest : Honest(c, man) /\ portable' = [portable EXCEPT ![c] = man]
    <2> DEFINE old == portable[c]
    <2>1. CASE portable[c] # NoManifest
               /\ portable' = [portable EXCEPT ![c].parser = "custom", ![c].verified = FALSE]
      <3>1. portable' = [portable EXCEPT ![c] = [old EXCEPT !.parser = "custom", !.verified = FALSE]]
        BY <1>3, <2>1
      <3>2. [old EXCEPT !.parser = "custom", !.verified = FALSE] \in Manifest
            /\ ~[old EXCEPT !.parser = "custom", !.verified = FALSE].verified
        BY <1>3, <1>4, <2>1 DEF Manifest
      <3>3. QED
        BY <3>1, <3>2 DEF Honest
    <2>2. CASE portable[c] # NoManifest
               /\ portable' = [portable EXCEPT ![c].risk = "privileged", ![c].confirm = TRUE]
      <3>1. portable' = [portable EXCEPT ![c] = [old EXCEPT !.risk = "privileged", !.confirm = TRUE]]
        BY <1>3, <2>2
      <3>2. [old EXCEPT !.risk = "privileged", !.confirm = TRUE] \in Manifest
            /\ [old EXCEPT !.risk = "privileged", !.confirm = TRUE].verified = old.verified
            /\ [old EXCEPT !.risk = "privileged", !.confirm = TRUE].parser = old.parser
        BY <1>3, <1>4, <2>2 DEF Manifest
      <3>3. QED
        BY <1>3, <2>2, <3>1, <3>2 DEF Honest
    <2>3. CASE portable[c] # NoManifest
               /\ portable' = [portable EXCEPT ![c].valid = ~portable[c].valid]
      <3>1. portable' = [portable EXCEPT ![c] = [old EXCEPT !.valid = ~old.valid]]
        BY <1>3, <2>3
      <3>2. [old EXCEPT !.valid = ~old.valid] \in Manifest
            /\ [old EXCEPT !.valid = ~old.valid].verified = old.verified
            /\ [old EXCEPT !.valid = ~old.valid].parser = old.parser
        BY <1>3, <2>3 DEF Manifest
      <3>3. QED
        BY <1>3, <2>3, <3>1, <3>2 DEF Honest
    <2>4. CASE /\ portable[c] # NoManifest /\ Covered(c, portable[c].parser)
               /\ portable' = [portable EXCEPT ![c].verified = TRUE]
      <3>1. portable' = [portable EXCEPT ![c] = [old EXCEPT !.verified = TRUE]]
        BY <1>3, <2>4
      <3>2. [old EXCEPT !.verified = TRUE] \in Manifest
            /\ [old EXCEPT !.verified = TRUE].parser = old.parser
        BY <1>3, <2>4 DEF Manifest
      <3>3. QED
        BY <2>4, <3>1, <3>2 DEF Honest
    <2>5. CASE overlay[c] # NoManifest /\ portable' = [portable EXCEPT ![c] = overlay[c]]
      BY <1>3, <2>5
    <2>6. QED
      BY <1>1, <2>1, <2>2, <2>3, <2>4, <2>5
  <1>6. QED
    BY <1>2, <1>5, PortableKept

\* A repair has a covered manifest in hand: one verified already, or one its fixtures list.
LEMMA RepairedHonest ==
    ASSUME HarnessIInv, NEW h \in Name, NEW e, e.status.record \in MarketRecord \cup {NoRecord},
           e.manifest \in Manifest, Honest(e.status.cap, e.manifest),
           NEW module \in Module, NEW smoked \in BOOLEAN
    PROVE  /\ RepairedManifest(h, e, module, smoked) \in Manifest
           /\ Honest(e.status.cap, RepairedManifest(h, e, module, smoked))
  <1> DEFINE m == e.manifest
             risk == InferredRisk(e.status.record, m.risk)
             confirm == m.confirm \/ risk \in {"privileged", "external-network"}
             verified == m.verified \/ (smoked /\ Covered(e.status.cap, m.parser))
  <1>1. /\ m.risk \in Risk /\ m.confirm \in BOOLEAN /\ m.parser \in Parser
        /\ m.verified \in BOOLEAN /\ m.valid \in BOOLEAN
    BY DEF Manifest
  <1>2. risk \in Risk
    BY <1>1, InferredRiskType
  <1>3. confirm \in BOOLEAN /\ verified \in BOOLEAN
    BY <1>1, Zenon DEF Covered
  <1>4. m # NoManifest
    BY ShippedAssumption
  <1>5. verified => Covered(e.status.cap, m.parser)
    BY <1>4 DEF Honest
  <1>6. RepairedManifest(h, e, module, smoked) =
            [risk |-> risk, confirm |-> confirm, parser |-> m.parser, verified |-> verified,
             valid |-> m.valid, repair |-> module, of |-> h]
    BY DEF RepairedManifest
  <1> HIDE DEF risk, confirm, verified
  <1>7. RepairedManifest(h, e, module, smoked) \in Manifest
    BY <1>1, <1>2, <1>3, <1>6 DEF Manifest
  <1>8. Honest(e.status.cap, RepairedManifest(h, e, module, smoked))
    BY <1>5, <1>6 DEF Honest
  <1>9. QED
    BY <1>7, <1>8

\* What a step owes to the work in hand.
HandKept ==
    /\ work' \in Work
    /\ work' # NoWork /\ work'.kind # "install" => HonestNext(work'.cap, work'.manifest)

LEMMA RepairOK ==
    ASSUME HarnessIInv, NEW h \in Name, NEW module \in Module \cup {NoModule},
           NEW smoke \in BOOLEAN, Repair(h, module, smoke)
    PROVE  Kept /\ HandKept
  <1> DEFINE e == Evaluation(h, TRUE)
             strategy == Strategy(h, e, module)
             smoked == smoke /\ SmokeOk(strategy.module)
             man == RepairedManifest(h, e, strategy.module, smoked)
  <1>1. /\ e.status.record \in MarketRecord \cup {NoRecord} /\ e.status.cap \in Capability
        /\ e.manifest \in Manifest /\ Honest(e.status.cap, e.manifest)
    BY EvaluationFacts
  <1>2. strategy.module \in Module
    <2>1. strategy.ready
      BY DEF Repair, RepairAs
    <2>2. QED
      BY <2>1, ModuleAssumption DEF Strategy
  <1>3. smoked \in BOOLEAN
    OBVIOUS
  <1>4. /\ work' = [kind |-> "wrapper", name |-> h, cap |-> e.status.cap, manifest |-> man]
        /\ UNCHANGED <<host, installed, onPath, files>>
    BY DEF Repair, RepairAs
  <1> HIDE DEF e, strategy, smoked
  <1>5. man \in Manifest /\ Honest(e.status.cap, man)
    BY <1>1, <1>2, <1>3, RepairedHonest
  <1> HIDE DEF man
  <1>6. HandKept
    <2>1. work' \in Work
      BY <1>1, <1>4, <1>5 DEF Work
    <2>2. HonestNext(e.status.cap, man)
      BY <1>4, <1>5, CoveredStays DEF files
    <2>3. QED
      BY <1>4, <2>1, <2>2 DEF HandKept
  <1>7. Kept
    BY <1>4, FilesKept DEF host, files, HarnessIInv, HarnessTypeOK
  <1>8. QED
    BY <1>6, <1>7

\* Who leaves the work in hand alone, or drops it, and only adds fixtures, keeps it.
LEMMA HandStays ==
    ASSUME HarnessIInv, fixtures \subseteq fixtures', work' = work \/ work' = NoWork
    PROVE  HandKept
  <1>1. CASE work' = NoWork
    BY <1>1 DEF HandKept, Work
  <1>2. CASE work' = work
    <2>1. work # NoWork /\ work.kind # "install" => HonestNext(work.cap, work.manifest)
      BY CoveredStays DEF HarnessIInv, RepairHonest
    <2>2. QED
      BY <1>2, <2>1 DEF HandKept, HarnessIInv, HarnessTypeOK
  <1>3. QED
    BY <1>1, <1>2

LEMMA OnboardOK ==
    ASSUME HarnessIInv, NEW h \in Name, NEW write \in BOOLEAN, NEW allow \in BOOLEAN,
           OnboardWrite(h, write, allow)
    PROVE  Kept /\ HandKept
  <1>1. /\ work' = [kind |-> "install", name |-> h, allowBlocked |-> allow]
        /\ UNCHANGED <<market, overlay, fixtures>>
        /\ AdaptWrite(h, TRUE) \/ portable' = portable
    BY DEF OnboardWrite, host
  <1>2. Kept
    BY <1>1, AdaptKept, FilesKept DEF HarnessIInv, HarnessTypeOK
  <1>3. HandKept
    BY <1>1 DEF HandKept, Work
  <1>4. QED
    BY <1>2, <1>3

LEMMA WriteWrapperOK ==
    ASSUME HarnessIInv, WriteWrapper
    PROVE  Kept /\ HandKept
  <1>1. /\ work # NoWork /\ work.kind = "wrapper" /\ work' = [work EXCEPT !.kind = "overlay"]
        /\ UNCHANGED <<market, portable, overlay, fixtures>>
    BY DEF WriteWrapper, host
  <1>2. work \in [kind : {"wrapper", "overlay"}, name : Name, cap : Capability,
                  manifest : Manifest]
    BY <1>1 DEF HarnessIInv, HarnessTypeOK, Work
  <1>3. /\ work' \in [kind : {"wrapper", "overlay"}, name : Name, cap : Capability,
                      manifest : Manifest]
        /\ work'.cap = work.cap /\ work'.manifest = work.manifest
    BY <1>1, <1>2
  <1>4. HonestNext(work.cap, work.manifest)
    BY <1>1, CoveredStays DEF HarnessIInv, RepairHonest
  <1>5. HandKept
    BY <1>3, <1>4 DEF HandKept, Work
  <1>6. Kept
    BY <1>1, FilesKept DEF HarnessIInv, HarnessTypeOK
  <1>7. QED
    BY <1>5, <1>6

LEMMA WriteOverlayOK ==
    ASSUME HarnessIInv, WriteOverlay
    PROVE  Kept /\ HandKept
  <1>1. /\ work # NoWork /\ work.kind = "overlay" /\ work' = NoWork
        /\ overlay' = [overlay EXCEPT ![work.cap] = work.manifest]
        /\ UNCHANGED <<market, portable, fixtures>>
    BY DEF WriteOverlay, host
  <1>2. work.cap \in Capability /\ work.manifest \in Manifest
    BY <1>1 DEF HarnessIInv, HarnessTypeOK, Work
  <1>3. Honest(work.cap, work.manifest)
    BY <1>1 DEF HarnessIInv, RepairHonest
  <1>4. overlay' \in [Capability -> Manifest \cup {NoManifest}]
    BY <1>1, <1>2 DEF HarnessIInv, HarnessTypeOK
  <1>5. \A c \in Capability : Honest(c, portable'[c]) /\ Honest(c, overlay'[c])
    BY <1>1, <1>2, <1>3 DEF HarnessIInv, HarnessTypeOK, VerifiedIsCovered, Honest
  <1>6. Kept
    BY <1>1, <1>4, <1>5, CoveredStays DEF Kept, HarnessIInv, HarnessTypeOK
  <1>7. QED
    BY <1>1, <1>6, HandStays

\* Changes of the host, of the market, and of what is installed or recorded.
LEMMA AnyoneElseOK ==
    ASSUME HarnessIInv, AnyoneElse
    PROVE  Kept /\ HandKept
  <1>1. CASE HostChanges
    <2>1. market' \in Market /\ UNCHANGED <<portable, overlay, fixtures, work>>
      BY <1>1 DEF HostChanges, files, HarnessIInv, HarnessTypeOK
    <2>2. QED
      BY <2>1, FilesKept, HandStays
  <1>2. CASE AddFixture
    <2>1. /\ UNCHANGED <<market, portable, overlay, work>>
          /\ fixtures \subseteq fixtures'
      BY <1>2 DEF AddFixture, host
    <2>2. QED
      BY <2>1, FilesKept, HandStays DEF HarnessIInv, HarnessTypeOK
  <1>3. CASE EditManifest
    <2>1. fixtures' = fixtures /\ work' = work
      BY <1>3 DEF EditManifest
    <2>2. QED
      BY <1>3, <2>1, EditKept, HandStays
  <1>4. CASE Die
    <2>1. work' = NoWork /\ UNCHANGED <<market, portable, overlay, fixtures>>
      BY <1>4 DEF Die, host, files
    <2>2. QED
      BY <2>1, FilesKept, HandStays DEF HarnessIInv, HarnessTypeOK
  <1>5. CASE \E h \in Name, write, allow \in BOOLEAN : OnboardWrite(h, write, allow)
    BY <1>5, OnboardOK
  <1>6. CASE \E h \in Name, m \in Module \cup {NoModule}, smoke \in BOOLEAN :
                 Repair(h, m, smoke)
    BY <1>6, RepairOK
  <1>7. CASE UNCHANGED <<host, files, work>>
    <2>1. UNCHANGED <<market, portable, overlay, fixtures, work>>
      BY <1>7 DEF host, files
    <2>2. QED
      BY <2>1, FilesKept, HandStays DEF HarnessIInv, HarnessTypeOK
  <1>8. CASE \E q \in Query, limit \in 1..Len(market) :
                 /\ SyncMarket(q, limit)
                 /\ UNCHANGED <<host, installed, onPath, overlay, wrapper, fixtures, work>>
    <2>1. PICK q \in Query, limit \in 1..Len(market) : SyncMarket(q, limit)
      BY <1>8
    <2>2. UNCHANGED <<market, overlay, fixtures, work>>
      BY <1>8 DEF host
    <2>3. QED
      BY <2>1, <2>2, SyncKept, HandStays
  <1>9. QED
    BY <1>1, <1>2, <1>3, <1>4, <1>5, <1>6, <1>7, <1>8 DEF AnyoneElse

LEMMA FollowOK ==
    ASSUME HarnessIInv, NEW h \in Name,
           FollowWrite(h) \/ FollowInstall(h) \/ FollowTransport(h)
    PROVE  Kept /\ HandKept
  <1>1. CASE FollowWrite(h)
    <2>1. AdaptWrite(h, TRUE) /\ UNCHANGED <<market, overlay, fixtures, work>>
      BY <1>1 DEF FollowWrite, host
    <2>2. QED
      BY <2>1, AdaptKept, HandStays
  <1>2. CASE FollowInstall(h) \/ FollowTransport(h)
    <2>1. UNCHANGED <<market, portable, overlay, fixtures, work>>
      BY <1>2 DEF FollowInstall, FollowTransport, host, files
    <2>2. QED
      BY <2>1, FilesKept, HandStays DEF HarnessIInv, HarnessTypeOK
  <1>3. QED
    BY <1>1, <1>2

LEMMA OnboardInstallOK ==
    ASSUME HarnessIInv, OnboardInstall
    PROVE  Kept /\ HandKept
  <1>1. work' = NoWork /\ UNCHANGED <<market, portable, overlay, fixtures>>
    BY DEF OnboardInstall, host, files
  <1>2. QED
    BY <1>1, FilesKept, HandStays DEF HarnessIInv, HarnessTypeOK

-----------------------------------------------------------------------------
LEMMA HarnessInitOK == Init => HarnessIInv
  <1> SUFFICES ASSUME Init PROVE HarnessIInv
    OBVIOUS
  <1>1. HarnessTypeOK
    BY ShippedAssumption DEF Init, HarnessTypeOK, Work
  <1>2. VerifiedIsCovered
    BY ShippedAssumption DEF Init, VerifiedIsCovered, Covered
  <1>3. RepairHonest
    BY DEF Init, RepairHonest
  <1>4. QED
    BY <1>1, <1>2, <1>3 DEF HarnessIInv

LEMMA HarnessStepInv == HarnessIInv /\ [Next]_vars => HarnessIInv'
  <1> SUFFICES ASSUME HarnessIInv, [Next]_vars PROVE HarnessIInv'
    OBVIOUS
  <1>1. Kept /\ HandKept
    <2>1. CASE Next
      BY <2>1, AnyoneElseOK, OnboardInstallOK, WriteWrapperOK, WriteOverlayOK, FollowOK
         DEF Next
    <2>2. CASE UNCHANGED vars
      <3>1. UNCHANGED <<market, portable, overlay, fixtures, work>>
        BY <2>2 DEF vars, host, files
      <3>2. QED
        BY <3>1, FilesKept, HandStays DEF HarnessIInv, HarnessTypeOK
    <2>3. QED
      BY <2>1, <2>2
  <1>2. QED
    BY <1>1 DEF Kept, HandKept, HonestNext, HarnessIInv, HarnessTypeOK, VerifiedIsCovered,
                RepairHonest, Honest, Covered

-----------------------------------------------------------------------------
(* Lists that reports are made of.                                         *)

\* A strict total order of the elements of S.
Orders(less, S) ==
    /\ \A x \in S : <<x, x>> \notin less
    /\ \A x, y \in S : x # y => <<x, y>> \in less \/ <<y, x>> \in less
    /\ \A x, y, z \in S : <<x, y>> \in less /\ <<y, z>> \in less => <<x, z>> \in less

\* In order, a set is listed once, each element after those before it.
LEMMA InOrderLists ==
    ASSUME NEW S, IsFiniteSet(S), NEW less, Orders(less, S)
    PROVE  /\ Cardinality(S) \in Nat
           /\ InOrder(S, less) \in [1..Cardinality(S) -> S]
           /\ \A n \in 1..Cardinality(S) :
                  Cardinality({y \in S : <<y, InOrder(S, less)[n]>> \in less}) = n - 1
           /\ \A m, n \in 1..Cardinality(S) :
                  InOrder(S, less)[m] = InOrder(S, less)[n] => m = n
           /\ \A x \in S : \E n \in 1..Cardinality(S) : InOrder(S, less)[n] = x
  <1> DEFINE below(x) == {y \in S : <<y, x>> \in less}
             N == Cardinality(S)
             place == [x \in S |-> Cardinality(below(x)) + 1]
             list == InOrder(S, less)
  <1>1. N \in Nat
    BY FS_CardinalityType
  <1>2. ASSUME NEW x \in S
        PROVE  /\ IsFiniteSet(below(x)) /\ Cardinality(below(x)) \in Nat
               /\ Cardinality(below(x)) + 1 \in 1..N
    <2>1. below(x) \in SUBSET (S \ {x})
      BY DEF Orders
    <2>2. IsFiniteSet(S \ {x}) /\ Cardinality(S \ {x}) = N - 1
      BY FS_RemoveElement
    <2>3. IsFiniteSet(below(x)) /\ Cardinality(below(x)) <= N - 1
      BY <2>1, <2>2, FS_Subset
    <2>4. Cardinality(below(x)) \in Nat
      BY <2>3, FS_CardinalityType
    <2>5. QED
      BY <1>1, <2>3, <2>4
  <1>3. ASSUME NEW x \in S, NEW y \in S, <<x, y>> \in less
        PROVE  Cardinality(below(x)) < Cardinality(below(y))
    <2>1. x \notin below(x) /\ below(x) \cup {x} \in SUBSET below(y)
      BY <1>3 DEF Orders
    <2> HIDE DEF below
    <2>2. Cardinality(below(x) \cup {x}) = Cardinality(below(x)) + 1
      BY <1>2, <2>1, FS_AddElement
    <2>3. Cardinality(below(x) \cup {x}) <= Cardinality(below(y))
      BY <1>2, <2>1, FS_Subset
    <2>4. QED
      BY <1>2, <2>2, <2>3
  <1>4. place \in [S -> 1..N]
    <2> HIDE DEF below
    <2>1. QED
      BY <1>2
  <1>5. ASSUME NEW x \in S, NEW y \in S, Cardinality(below(x)) = Cardinality(below(y))
        PROVE  x = y
    <2>1. CASE x # y
      <3>1. <<x, y>> \in less \/ <<y, x>> \in less
        BY <2>1 DEF Orders
      <3> HIDE DEF below
      <3>2. Cardinality(below(x)) # Cardinality(below(y))
        BY <1>2, <1>3, <3>1
      <3>3. QED
        BY <1>5, <3>2
    <2>2. QED
      BY <2>1
  <1>6. \A n \in 1..N : \E x \in S : Cardinality(below(x)) = n - 1
    <2>1. place \in Injection(S, 1..N)
      <3> HIDE DEF below
      <3>1. \A x, y \in S : place[x] = place[y] => x = y
        BY <1>2, <1>5
      <3> HIDE DEF place
      <3>2. QED
        BY <1>4, <3>1 DEF Injection, IsInjective
    <2>2. IsFiniteSet(1..N) /\ Cardinality(1..N) = N
      BY <1>1, FS_Interval
    <2> HIDE DEF place
    <2>3. place \in Surjection(S, 1..N)
      BY <2>1, <2>2, FS_Injection
    <2>4. \A n \in 1..N : \E x \in S : place[x] = n
      BY <2>3 DEF Surjection
    <2> USE DEF place
    <2> HIDE DEF below
    <2>5. QED
      BY <1>2, <2>4
  <1>7. ASSUME NEW n \in 1..N
        PROVE  list[n] \in S /\ Cardinality(below(list[n])) = n - 1
    <2>1. list[n] = CHOOSE x \in S : Cardinality(below(x)) = n - 1
      BY DEF InOrder
    <2> HIDE DEF below, list
    <2>2. \E x \in S : Cardinality(below(x)) = n - 1
      BY <1>6
    <2>3. QED
      BY <2>1, <2>2
  <1>8. list = [n \in 1..N |-> list[n]]
    <2> DEFINE pick(n) == CHOOSE x \in S : Cardinality(below(x)) = n - 1
    <2>1. list = [n \in 1..N |-> pick(n)]
      BY DEF InOrder
    <2> HIDE DEF list, pick
    <2>2. QED
      BY <2>1
  <1> HIDE DEF below, list, N
  <1>9. list \in [1..N -> S]
    BY <1>7, <1>8
  <1>10. \A m, n \in 1..N : list[m] = list[n] => m = n
    BY <1>1, <1>7
  <1>11. \A x \in S : \E n \in 1..N : list[n] = x
    <2> TAKE x \in S
    <2> DEFINE n == Cardinality(below(x)) + 1
    <2>1. n \in 1..N /\ n - 1 = Cardinality(below(x))
      BY <1>1, <1>2
    <2> HIDE DEF n
    <2>2. list[n] = x
      BY <1>5, <1>7, <2>1
    <2>3. QED
      BY <2>1, <2>2
  <1> USE DEF below, list, N
  <1>12. QED
    BY <1>1, <1>7, <1>9, <1>10, <1>11

\* The positions of a sequence are in order.
LEMMA PositionsOrdered ==
    ASSUME NEW K \in SUBSET Nat
    PROVE  Orders({mn \in K \X K : mn[1] < mn[2]}, K)
  <1>1. \A m, n \in K : <<m, n>> \in {mn \in K \X K : mn[1] < mn[2]} <=> m < n
    OBVIOUS
  <1>2. QED
    BY <1>1 DEF Orders

\* The elements at some positions of a sequence: no others, all of them, once if the
\* sequence has them once; and the first one first.
LEMMA AtLists ==
    ASSUME NEW S, NEW s \in Seq(S), NEW K \in SUBSET (DOMAIN s)
    PROVE  /\ At(s, K) \in Seq(S)
           /\ \A n \in 1..Len(At(s, K)) : \E k \in K : At(s, K)[n] = s[k]
           /\ \A k \in K : \E n \in 1..Len(At(s, K)) : At(s, K)[n] = s[k]
           /\ (\A k, l \in K : s[k] = s[l] => k = l) =>
                  \A m, n \in 1..Len(At(s, K)) : At(s, K)[m] = At(s, K)[n] => m = n
           /\ 1 \in K => Len(At(s, K)) > 0 /\ At(s, K)[1] = s[1]
  <1> DEFINE less == {mn \in K \X K : mn[1] < mn[2]}
             places == InOrder(K, less)
             N == Cardinality(K)
  <1>1. Len(s) \in Nat /\ DOMAIN s = 1..Len(s) /\ \A k \in 1..Len(s) : s[k] \in S
    BY LenProperties, ElementOfSeq
  <1>2. K \in SUBSET Nat /\ IsFiniteSet(K)
    <2>1. IsFiniteSet(1..Len(s))
      BY <1>1, FS_Interval
    <2>2. QED
      BY <1>1, <2>1, FS_Subset
  <1>3. Orders(less, K)
    BY <1>2, PositionsOrdered
  <1>4. At(s, K) = [n \in DOMAIN places |-> s[places[n]]]
    BY DEF At
  <1>5. \A m, n \in K : <<m, n>> \in less <=> m < n
    OBVIOUS
  <1> HIDE DEF less
  <1>6. /\ N \in Nat /\ places \in [1..N -> K]
        /\ \A n \in 1..N : Cardinality({y \in K : <<y, places[n]>> \in less}) = n - 1
        /\ \A m, n \in 1..N : places[m] = places[n] => m = n
        /\ \A k \in K : \E n \in 1..N : places[n] = k
    BY <1>2, <1>3, InOrderLists
  <1> HIDE DEF places, N
  <1>7. At(s, K) = [n \in 1..N |-> s[places[n]]]
    BY <1>4, <1>6
  <1>8. \A n \in 1..N : s[places[n]] \in S
    BY <1>1, <1>6
  <1>9. At(s, K) \in Seq(S) /\ Len(At(s, K)) = N
    BY <1>6, <1>7, <1>8
  <1>10. 1 \in K => N > 0 /\ places[1] = 1
    <2> SUFFICES ASSUME 1 \in K PROVE N > 0 /\ places[1] = 1
      OBVIOUS
    <2>1. PICK n \in 1..N : places[n] = 1
      BY <1>6
    <2>2. {y \in K : <<y, 1>> \in less} = {}
      BY <1>1, <1>2, <1>5
    <2>3. n - 1 = 0
      BY <1>6, <2>1, <2>2, FS_EmptySet
    <2>4. QED
      BY <1>6, <2>1, <2>3
  <1>11. QED
    BY <1>6, <1>7, <1>9, <1>10

\* The first n of a list.
LEMMA TakeLists ==
    ASSUME NEW S, NEW s \in Seq(S), NEW n \in Nat
    PROVE  /\ Take(n, s) \in Seq(S) /\ Len(Take(n, s)) = Least(n, Len(s))
           /\ Len(Take(n, s)) <= Len(s)
           /\ \A i \in 1..Len(Take(n, s)) : Take(n, s)[i] = s[i]
  <1>1. Len(s) \in Nat /\ \A k \in 1..Len(s) : s[k] \in S
    BY LenProperties, ElementOfSeq
  <1> DEFINE l == Least(n, Len(s))
  <1>2. l \in Nat /\ l <= Len(s)
    BY <1>1 DEF Least
  <1>3. Take(n, s) = SubSeq(s, 1, l)
    BY DEF Take
  <1> HIDE DEF l
  <1>4. \A i \in 1..l : s[i] \in S
    BY <1>1, <1>2
  <1>5. /\ SubSeq(s, 1, l) \in Seq(S)
        /\ Len(SubSeq(s, 1, l)) = IF 1 <= l THEN l - 1 + 1 ELSE 0
        /\ \A i \in 1..(l - 1 + 1) : SubSeq(s, 1, l)[i] = s[1 + i - 1]
    BY <1>2, <1>4, SubSeqProperties
  <1>6. Len(SubSeq(s, 1, l)) = l
    BY <1>2, <1>5
  <1>7. \A i \in 1..l : SubSeq(s, 1, l)[i] = s[i]
    BY <1>2, <1>5
  <1>8. QED
    BY <1>2, <1>3, <1>5, <1>6, <1>7 DEF l
-----------------------------------------------------------------------------
(* What the market, an evaluation and a candidate say of a harness.        *)

LEMMA MarketFacts ==
    ASSUME HarnessTypeOK
    PROVE  /\ market \in Seq(MarketRecord) /\ Len(market) \in Nat
           /\ DOMAIN market = 1..Len(market)
           /\ \A i \in DOMAIN market : /\ market[i] \in MarketRecord /\ market[i].name \in Name
                                       /\ market[i].name \in Nat /\ market[i] # NoRecord
  <1>1. market \in Seq(MarketRecord)
    BY MarketAssumption DEF HarnessTypeOK
  <1>2. Len(market) \in Nat /\ DOMAIN market = 1..Len(market)
    BY <1>1, LenProperties
  <1>3. \A i \in DOMAIN market : market[i] \in MarketRecord
    BY <1>1, <1>2, ElementOfSeq
  <1>4. \A r \in MarketRecord : r.name \in Name /\ r # NoRecord
    BY MarketAssumption DEF MarketRecord
  <1>5. QED
    BY <1>1, <1>2, <1>3, <1>4, NameAssumption

\* What decides in an evaluation.
LEMMA EvaluationParts ==
    ASSUME NEW h
    PROVE  LET e == Evaluation(h, TRUE)
               r == RecordFor(h)
           IN  /\ e.ok <=> r # NoRecord
               /\ e.status.record = r
               /\ e.status.installed <=> hub /\ h \in installed
               /\ e.status.installed => (e.status.entry <=> h \in onPath)
               /\ e.requires = Requires(h, r)
               /\ e.blockers = EvaluationBlockers(e.status, e.manifest, e.requires)
               /\ e.candidate <=> e.blockers = {}
               /\ e.launchReady <=> /\ e.status.installed /\ e.status.entry
                                    /\ e.manifest.valid /\ pty
  <1> DEFINE e == Evaluation(h, TRUE)
             r == RecordFor(h)
             s == StatusOf(h, r)
  <1>1. Status(h, TRUE) = s
    BY DEF Status
  <1>2. e = EvaluationOf(s.record # NoRecord, s, OnDisk(s.name, s.record), Requires(h, s.record))
    BY <1>1 DEF Evaluation
  <1>3. /\ s.record = r
        /\ s.installed <=> hub /\ h \in installed
        /\ s.installed => (s.entry <=> h \in onPath)
    <2> HIDE DEF r
    <2>1. QED
      BY DEF StatusOf
  <1> HIDE DEF s, e, r
  <1>4. /\ e.ok = (s.record # NoRecord) /\ e.status = s /\ e.requires = Requires(h, s.record)
        /\ e.manifest = OnDisk(s.name, s.record)
        /\ e.blockers = EvaluationBlockers(s, OnDisk(s.name, s.record), Requires(h, s.record))
        /\ e.candidate = (e.blockers = {})
        /\ e.launchReady = (s.installed /\ s.entry /\ OnDisk(s.name, s.record).valid /\ pty)
    BY <1>2 DEF EvaluationOf, Assessment
  <1> USE DEF e, r
  <1>5. QED
    BY <1>3, <1>4

\* What decides in a candidate: a collision or a failed probe blocks it.
LEMMA CandidateParts ==
    ASSUME NEW q, NEW i \in DOMAIN market
    PROVE  /\ Probed(q, i).name = market[i].name
           /\ Probed(q, i).blockers \subseteq
                  {"manifest", "policy", "requirements", "platform", "collision", "probe"}
           /\ Probed(q, i).candidate <=> Probed(q, i).blockers = {}
           /\ Probed(q, i).candidate =>
                  ~Collides(q, i) /\ ~ProbesBlock(Declared(market[i]))
  <1> DEFINE Shape(c) == c = [name |-> c.name, cap |-> c.cap, imported |-> c.imported,
                              installed |-> c.installed, launchReady |-> c.launchReady,
                              blockers |-> c.blockers, candidate |-> c.candidate,
                              advice |-> c.advice]
             Fits(c) == /\ Shape(c) /\ c.name = market[i].name
                        /\ c.blockers \subseteq {"manifest", "policy", "requirements", "platform",
                                                 "collision", "probe"}
                        /\ c.candidate <=> c.blockers = {}
  <1>1. Fits(Candidate(i))
    <2> DEFINE man == OnDisk(market[i].name, market[i])
               blockers == {b \in {"manifest", "policy", "requirements", "platform"} :
                               \/ b = "manifest" /\ ~man.valid
                               \/ b = "policy" /\ ~LowRisk(man)
                               \/ b = "requirements" /\ ~DependencyFree(Declared(market[i]))
                               \/ b = "platform" /\ OtherPlatform(market[i], Declared(market[i]))}
               c == CandidateOf(market[i], man)
    <2>1. Candidate(i) = c
      BY DEF Candidate
    <2>2. /\ c.name = market[i].name /\ c.blockers = blockers /\ c.candidate = (blockers = {})
          /\ Shape(c)
      BY DEF CandidateOf
    <2>3. blockers \subseteq {"manifest", "policy", "requirements", "platform"}
      OBVIOUS
    <2> HIDE DEF c, blockers
    <2>4. QED
      BY <2>1, <2>2, <2>3
  <1>2. ASSUME NEW c, Fits(c), NEW holds, NEW b \in {"collision", "probe"}
        PROVE  /\ Fits(BlockedIf(holds, c, b))
               /\ BlockedIf(holds, c, b).candidate => ~holds /\ c.candidate
    <2>1. CASE ~holds
      BY <1>2, <2>1 DEF BlockedIf
    <2>2. CASE holds
      <3>1. BlockedIf(holds, c, b) =
                [name |-> c.name, cap |-> c.cap, imported |-> c.imported,
                 installed |-> c.installed, launchReady |-> c.launchReady,
                 blockers |-> c.blockers \cup {b}, candidate |-> FALSE,
                 advice |-> "resolve_blockers"]
        BY <1>2, <2>2 DEF BlockedIf
      <3>2. c.blockers \cup {b} # {}
        OBVIOUS
      <3>3. c.blockers \cup {b} \subseteq {"manifest", "policy", "requirements", "platform",
                                           "collision", "probe"}
        BY <1>2
      <3> HIDE <1>2
      <3>4. /\ BlockedIf(holds, c, b).name = c.name
            /\ BlockedIf(holds, c, b).blockers = c.blockers \cup {b}
            /\ BlockedIf(holds, c, b).candidate = FALSE
            /\ Shape(BlockedIf(holds, c, b))
        BY <3>1
      <3>5. QED
        BY <1>2, <3>2, <3>3, <3>4
    <2>3. QED
      BY <2>1, <2>2
  <1>3. Marked(q, i) = BlockedIf(Collides(q, i), Candidate(i), "collision")
        /\ Probed(q, i) = BlockedIf(ProbesBlock(Declared(market[i])), Marked(q, i), "probe")
    BY DEF Marked, Probed
  <1>4. Fits(Marked(q, i)) /\ (Marked(q, i).candidate => ~Collides(q, i))
    <2> HIDE DEF Fits
    <2>1. QED
      BY <1>1, <1>2, <1>3
  <1>5. /\ Fits(Probed(q, i))
        /\ Probed(q, i).candidate =>
               Marked(q, i).candidate /\ ~ProbesBlock(Declared(market[i]))
    <2> HIDE DEF Fits
    <2>1. QED
      BY <1>2, <1>3, <1>4
  <1>6. QED
    BY <1>4, <1>5
-----------------------------------------------------------------------------
(* What a repair has written.                                              *)

\* A manifest that starts a wrapper is one whose wrapper is there, and can import what it
\* runs.
Whole(man) == RepairActive(man) => wrapper[CapOf[man.of]] \in Importable

\* A repair replaces its wrapper before the overlay that starts it, and nothing removes a
\* wrapper: not what is edited, regenerated or moved, and not a repair that stops half way.
RepairsWhole ==
    /\ wrapper \in [Capability -> Importable \cup {NoModule}]
    /\ \A c \in Capability : \A man \in {portable[c], overlay[c]} \ {NoManifest} : Whole(man)
    /\ work # NoWork /\ work.kind # "install" =>
           work.manifest.of = work.name /\ work.manifest.repair \in Importable
    /\ work # NoWork /\ work.kind = "overlay" => wrapper[CapOf[work.name]] \in Importable

\* The inductive invariant of the reports.
HubIInv == HarnessIInv /\ RepairsWhole

\* A manifest whose wrapper, if it starts one, is there after a step.
WholeNext(man) ==
    man # NoManifest /\ RepairActive(man) => wrapper'[CapOf[man.of]] \in Importable

\* Wrappers stay, and those that manifests on disk start are there.
WrappersKept ==
    /\ wrapper' \in [Capability -> Importable \cup {NoModule}]
    /\ \A c \in Capability : wrapper[c] \in Importable => wrapper'[c] \in Importable
    /\ \A c \in Capability : WholeNext(portable'[c]) /\ WholeNext(overlay'[c])

\* The work in hand names the wrapper its manifest starts.
HandWhole ==
    /\ work' # NoWork /\ work'.kind # "install" =>
           work'.manifest.of = work'.name /\ work'.manifest.repair \in Importable
    /\ work' # NoWork /\ work'.kind = "overlay" => wrapper'[CapOf[work'.name]] \in Importable

\* Each manifest on disk is whole and names a harness.
LEMMA FilesWhole ==
    ASSUME HubIInv, NEW c \in Capability
    PROVE  /\ portable[c] # NoManifest => portable[c] \in Manifest /\ Whole(portable[c])
           /\ overlay[c] # NoManifest => overlay[c] \in Manifest /\ Whole(overlay[c])
  BY DEF HubIInv, HarnessIInv, HarnessTypeOK, RepairsWhole

\* A step that leaves wrappers, and replaces manifests only by such that start the wrapper
\* of one on disk or none.
LEMMA ManifestsKept ==
    ASSUME HubIInv, UNCHANGED wrapper,
           \A c \in Capability :
               /\ portable'[c] # NoManifest /\ RepairActive(portable'[c]) =>
                      \E d \in Capability : \E man \in {portable[d], overlay[d]} \ {NoManifest} :
                          RepairActive(man) /\ man.of = portable'[c].of
               /\ overlay'[c] = overlay[c]
    PROVE  WrappersKept
  <1>1. \A c \in Capability : WholeNext(overlay'[c])
    BY FilesWhole DEF WholeNext, Whole
  <1>2. \A c \in Capability : WholeNext(portable'[c])
    BY FilesWhole DEF WholeNext, Whole
  <1>3. QED
    BY <1>1, <1>2 DEF WrappersKept, HubIInv, RepairsWhole

LEMMA FilesStay ==
    ASSUME HubIInv, UNCHANGED <<portable, overlay, wrapper>>
    PROVE  WrappersKept
  <1>1. \A c \in Capability : WholeNext(portable'[c]) /\ WholeNext(overlay'[c])
    BY FilesWhole DEF WholeNext, Whole
  <1>2. QED
    BY <1>1 DEF WrappersKept, HubIInv, RepairsWhole

LEMMA HandLeft ==
    ASSUME HubIInv, UNCHANGED wrapper, work' = work \/ work' = NoWork
    PROVE  HandWhole
  BY DEF HandWhole, HubIInv, RepairsWhole

\* What is regenerated starts no wrapper.
LEMMA WrittenPlain ==
    ASSUME HarnessIInv, NEW name \in Name, NEW record \in MarketRecord \cup {NoRecord}
    PROVE  ~RepairActive(Written(name, record))
  <1> DEFINE generated == ManifestFor(name, record)
             existing == portable[CapOf[name]]
  <1>1. generated \in Manifest
    BY ManifestForType
  <1>2. generated.repair = NoModule
    BY DEF ManifestFor
  <1> HIDE DEF generated
  <1>3. [generated EXCEPT !.verified = TRUE].repair = NoModule
    BY <1>1, <1>2 DEF Manifest
  <1>4. Written(name, record) \in {generated, [generated EXCEPT !.verified = TRUE]}
    BY DEF Written, Preserved, generated
  <1>5. QED
    BY <1>2, <1>3, <1>4 DEF RepairActive

LEMMA AdaptWhole ==
    ASSUME HubIInv, NEW h \in Name, AdaptWrite(h, TRUE), UNCHANGED <<overlay, wrapper>>
    PROVE  WrappersKept
  <1> DEFINE s == Status(h, TRUE)
             man == Written(s.name, s.record)
  <1>1. /\ s.record \in MarketRecord \cup {NoRecord} /\ s.name \in Name
    BY StatusFacts DEF HubIInv, HarnessIInv
  <1>2. portable' = [portable EXCEPT ![CapOf[s.name]] = man]
    BY DEF AdaptWrite, WriteManifest
  <1> HIDE DEF s
  <1>3. ~RepairActive(man)
    BY <1>1, WrittenPlain DEF HubIInv
  <1> HIDE DEF man
  <1>4. \A c \in Capability : portable'[c] = man \/ portable'[c] = portable[c]
    BY <1>2 DEF HubIInv, HarnessIInv, HarnessTypeOK
  <1>5. QED
    BY <1>3, <1>4, ManifestsKept

LEMMA SyncWhole ==
    ASSUME HubIInv, NEW q, NEW limit, SyncMarket(q, limit), UNCHANGED <<overlay, wrapper>>
    PROVE  WrappersKept
  <1> DEFINE mine(c) == {i \in SyncedRecords(q, limit) : CapOf[market[i].name] = c}
             one(c) == market[CHOOSE i \in mine(c) : TRUE]
  <1>1. ASSUME NEW c \in Capability, mine(c) # {}
        PROVE  one(c) \in MarketRecord
    <2>1. (CHOOSE i \in mine(c) : TRUE) \in mine(c)
      BY <1>1
    <2>2. SyncedRecords(q, limit) \subseteq DOMAIN market
      BY HitsFacts DEF SyncedRecords, Within, HubIInv, HarnessIInv
    <2>3. QED
      BY <2>1, <2>2, MarketFacts DEF HubIInv, HarnessIInv
  <1>2. portable' = [c \in Capability |->
            IF mine(c) = {} THEN portable[c] ELSE Written(one(c).name, one(c))]
    BY DEF SyncMarket
  <1> HIDE DEF mine, one
  <1>3. ASSUME NEW c \in Capability
        PROVE  portable'[c] = portable[c] \/ ~RepairActive(portable'[c])
    <2>1. CASE mine(c) = {}
      BY <1>2, <2>1
    <2>2. CASE mine(c) # {}
      <3>1. one(c) \in MarketRecord /\ one(c).name \in Name
        BY <1>1, <2>2 DEF MarketRecord
      <3>2. QED
        BY <1>2, <2>2, <3>1, WrittenPlain DEF HubIInv
    <2>3. QED
      BY <2>1, <2>2
  <1>4. QED
    BY <1>3, ManifestsKept

LEMMA EditWhole ==
    ASSUME HubIInv, EditManifest
    PROVE  WrappersKept /\ HandWhole
  <1>1. PICK c \in Capability :
            \/ /\ portable[c] # NoManifest
               /\ \/ portable' = [portable EXCEPT ![c].parser = "custom", ![c].verified = FALSE]
                  \/ portable' = [portable EXCEPT ![c].risk = "privileged", ![c].confirm = TRUE]
                  \/ portable' = [portable EXCEPT ![c].valid = ~portable[c].valid]
                  \/ portable' = [portable EXCEPT ![c].verified = TRUE]
            \/ overlay[c] # NoManifest /\ portable' = [portable EXCEPT ![c] = overlay[c]]
    BY DEF EditManifest
  <1>2. UNCHANGED <<overlay, wrapper, work>>
    BY DEF EditManifest
  <1>3. portable \in [Capability -> Manifest \cup {NoManifest}]
    BY DEF HubIInv, HarnessIInv, HarnessTypeOK
  <1>4. \A x \in Capability \ {c} : portable'[x] = portable[x]
    BY <1>1, <1>3
  <1>5. \/ portable[c] # NoManifest /\ portable'[c].repair = portable[c].repair
                                    /\ portable'[c].of = portable[c].of
        \/ overlay[c] # NoManifest /\ portable'[c] = overlay[c]
    BY <1>1, <1>3 DEF Manifest
  <1>6. WrappersKept
    BY <1>2, <1>4, <1>5, ManifestsKept DEF RepairActive
  <1>7. QED
    BY <1>2, <1>6, HandLeft

\* A repair has a manifest in hand that starts the wrapper it is about to write.
LEMMA RepairWhole ==
    ASSUME HubIInv, NEW h \in Name, NEW module \in Module \cup {NoModule}, NEW smoke \in BOOLEAN,
           Repair(h, module, smoke)
    PROVE  WrappersKept /\ HandWhole
  <1> DEFINE e == Evaluation(h, TRUE)
             strategy == Strategy(h, e, module)
             man == RepairedManifest(h, e, strategy.module, smoke /\ SmokeOk(strategy.module))
  <1>1. strategy.module \in Importable
    BY DEF Repair, RepairAs, Strategy
  <1>2. /\ work' = [kind |-> "wrapper", name |-> h, cap |-> e.status.cap, manifest |-> man]
        /\ UNCHANGED <<portable, overlay, wrapper>>
    BY DEF Repair, RepairAs, files
  <1> HIDE DEF e, strategy
  <1>3. man.of = h /\ man.repair = strategy.module
    BY DEF RepairedManifest
  <1> HIDE DEF man
  <1>4. HandWhole
    BY <1>1, <1>2, <1>3 DEF HandWhole
  <1>5. QED
    BY <1>2, <1>4, FilesStay

LEMMA WriteWrapperWhole ==
    ASSUME HubIInv, WriteWrapper
    PROVE  WrappersKept /\ HandWhole
  <1>1. /\ work # NoWork /\ work.kind = "wrapper" /\ work' = [work EXCEPT !.kind = "overlay"]
        /\ wrapper' = [wrapper EXCEPT ![CapOf[work.name]] = work.manifest.repair]
        /\ UNCHANGED <<portable, overlay>>
    BY DEF WriteWrapper
  <1>2. work \in [kind : {"wrapper", "overlay"}, name : Name, cap : Capability,
                  manifest : Manifest]
    BY <1>1 DEF HubIInv, HarnessIInv, HarnessTypeOK, Work
  <1>3. /\ work'.name = work.name /\ work'.manifest = work.manifest /\ work'.kind = "overlay"
        /\ work.name \in Name /\ CapOf[work.name] \in Capability
    BY <1>1, <1>2, NameAssumption
  <1>4. work.manifest.of = work.name /\ work.manifest.repair \in Importable
    BY <1>1 DEF HubIInv, RepairsWhole
  <1>5. wrapper \in [Capability -> Importable \cup {NoModule}]
    BY DEF HubIInv, RepairsWhole
  <1>6. /\ wrapper' \in [Capability -> Importable \cup {NoModule}]
        /\ wrapper'[CapOf[work.name]] \in Importable
        /\ \A c \in Capability : wrapper[c] \in Importable => wrapper'[c] \in Importable
    BY <1>1, <1>3, <1>4, <1>5
  <1>7. \A man \in Manifest : CapOf[man.of] \in Capability
    BY NameAssumption DEF Manifest
  <1>8. \A c \in Capability : WholeNext(portable'[c]) /\ WholeNext(overlay'[c])
    BY <1>1, <1>6, <1>7, FilesWhole DEF WholeNext, Whole
  <1>9. HandWhole
    BY <1>3, <1>4, <1>6 DEF HandWhole
  <1>10. QED
    BY <1>6, <1>8, <1>9 DEF WrappersKept

LEMMA WriteOverlayWhole ==
    ASSUME HubIInv, WriteOverlay
    PROVE  WrappersKept /\ HandWhole
  <1>1. /\ work # NoWork /\ work.kind = "overlay" /\ work' = NoWork
        /\ overlay' = [overlay EXCEPT ![work.cap] = work.manifest]
        /\ UNCHANGED <<portable, wrapper>>
    BY DEF WriteOverlay
  <1>2. work.manifest.of = work.name /\ wrapper[CapOf[work.name]] \in Importable
    BY <1>1 DEF HubIInv, RepairsWhole
  <1>3. \A c \in Capability : overlay'[c] = overlay[c] \/ overlay'[c] = work.manifest
    BY <1>1 DEF HubIInv, HarnessIInv, HarnessTypeOK
  <1>4. \A c \in Capability : WholeNext(portable'[c]) /\ WholeNext(overlay'[c])
    BY <1>1, <1>2, <1>3, FilesWhole DEF WholeNext, Whole
  <1>5. WrappersKept
    BY <1>1, <1>4 DEF WrappersKept, HubIInv, RepairsWhole
  <1>6. QED
    BY <1>1, <1>5, HandLeft

LEMMA OnboardWhole ==
    ASSUME HubIInv, NEW h \in Name, NEW write \in BOOLEAN, NEW allow \in BOOLEAN,
           OnboardWrite(h, write, allow)
    PROVE  WrappersKept /\ HandWhole
  <1>1. /\ work' = [kind |-> "install", name |-> h, allowBlocked |-> allow]
        /\ UNCHANGED <<overlay, wrapper>>
        /\ AdaptWrite(h, TRUE) \/ portable' = portable
    BY DEF OnboardWrite
  <1>2. WrappersKept
    BY <1>1, AdaptWhole, FilesStay
  <1>3. HandWhole
    BY <1>1 DEF HandWhole
  <1>4. QED
    BY <1>2, <1>3

LEMMA AnyoneElseWhole ==
    ASSUME HubIInv, AnyoneElse
    PROVE  WrappersKept /\ HandWhole
  <1>1. CASE HostChanges \/ AddFixture \/ UNCHANGED <<host, files, work>>
    <2>1. UNCHANGED <<portable, overlay, wrapper, work>>
      BY <1>1 DEF HostChanges, AddFixture, files
    <2>2. QED
      BY <2>1, FilesStay, HandLeft
  <1>2. CASE EditManifest
    BY <1>2, EditWhole
  <1>3. CASE Die
    <2>1. work' = NoWork /\ UNCHANGED <<portable, overlay, wrapper>>
      BY <1>3 DEF Die, files
    <2>2. QED
      BY <2>1, FilesStay, HandLeft
  <1>4. CASE \E h \in Name, write, allow \in BOOLEAN : OnboardWrite(h, write, allow)
    BY <1>4, OnboardWhole
  <1>5. CASE \E h \in Name, m \in Module \cup {NoModule}, smoke \in BOOLEAN :
                 Repair(h, m, smoke)
    BY <1>5, RepairWhole
  <1>6. CASE \E q \in Query, limit \in 1..Len(market) :
                 /\ SyncMarket(q, limit)
                 /\ UNCHANGED <<host, installed, onPath, overlay, wrapper, fixtures, work>>
    <2>1. PICK q \in Query, limit \in 1..Len(market) : SyncMarket(q, limit)
      BY <1>6
    <2>2. UNCHANGED <<overlay, wrapper, work>>
      BY <1>6
    <2>3. QED
      BY <2>1, <2>2, SyncWhole, HandLeft
  <1>7. QED
    BY <1>1, <1>2, <1>3, <1>4, <1>5, <1>6 DEF AnyoneElse

LEMMA FollowWhole ==
    ASSUME HubIInv, NEW h \in Name,
           FollowWrite(h) \/ FollowInstall(h) \/ FollowTransport(h)
    PROVE  WrappersKept /\ HandWhole
  <1>1. CASE FollowWrite(h)
    <2>1. AdaptWrite(h, TRUE) /\ UNCHANGED <<overlay, wrapper, work>>
      BY <1>1 DEF FollowWrite
    <2>2. QED
      BY <2>1, AdaptWhole, HandLeft
  <1>2. CASE FollowInstall(h) \/ FollowTransport(h)
    <2>1. UNCHANGED <<portable, overlay, wrapper, work>>
      BY <1>2 DEF FollowInstall, FollowTransport, files
    <2>2. QED
      BY <2>1, FilesStay, HandLeft
  <1>3. QED
    BY <1>1, <1>2

LEMMA HubInit == Init => HubIInv
  <1> SUFFICES ASSUME Init PROVE HubIInv
    OBVIOUS
  <1>1. HarnessIInv
    BY HarnessInitOK
  <1>2. RepairsWhole
    BY ShippedAssumption DEF Init, RepairsWhole, Whole, RepairActive
  <1>3. QED
    BY <1>1, <1>2 DEF HubIInv

LEMMA HubStep == HubIInv /\ [Next]_vars => HubIInv'
  <1> SUFFICES ASSUME HubIInv, [Next]_vars PROVE HubIInv'
    OBVIOUS
  <1>1. HarnessIInv'
    BY HarnessStepInv DEF HubIInv
  <1>2. WrappersKept /\ HandWhole
    <2>1. CASE Next
      <3>1. CASE OnboardInstall
        <4>1. work' = NoWork /\ UNCHANGED <<portable, overlay, wrapper>>
          BY <3>1 DEF OnboardInstall, files
        <4>2. QED
          BY <4>1, FilesStay, HandLeft
      <3>2. QED
        BY <2>1, <3>1, AnyoneElseWhole, WriteWrapperWhole, WriteOverlayWhole, FollowWhole
           DEF Next
    <2>2. CASE UNCHANGED vars
      <3>1. UNCHANGED <<portable, overlay, wrapper, work>>
        BY <2>2 DEF vars, files
      <3>2. QED
        BY <3>1, FilesStay, HandLeft
    <2>3. QED
      BY <2>1, <2>2
  <1>3. RepairsWhole'
    <2>1. \A c \in Capability : \A man \in {portable'[c], overlay'[c]} \ {NoManifest} :
              RepairActive(man) => wrapper'[CapOf[man.of]] \in Importable
      BY <1>2 DEF WrappersKept, WholeNext
    <2>2. QED
      BY <1>2, <2>1 DEF WrappersKept, HandWhole, RepairsWhole, Whole, RepairActive
  <1>4. QED
    BY <1>1, <1>3 DEF HubIInv
-----------------------------------------------------------------------------
(* The queue of installs.                                                  *)

\* Candidates are compared by three numbers and their place in the listing.
LEMMA ComparedByNumbers ==
    ASSUME NEW S \in SUBSET Nat, NEW a \in [S -> Nat], NEW b \in [S -> Nat], NEW c \in [S -> Nat],
           NEW less, \A i, j \in S : <<i, j>> \in less <=>
               a[i] < a[j] \/ (a[i] = a[j] /\ (b[i] < b[j] \/ (b[i] = b[j] /\
                   (c[i] < c[j] \/ (c[i] = c[j] /\ i < j)))))
    PROVE  Orders(less, S)
  <1> DEFINE Is(i, j) == a[i] < a[j] \/ (a[i] = a[j] /\ (b[i] < b[j] \/ (b[i] = b[j] /\
                   (c[i] < c[j] \/ (c[i] = c[j] /\ i < j)))))
  <1>1. \A i \in S : a[i] \in Nat /\ b[i] \in Nat /\ c[i] \in Nat /\ i \in Nat
    OBVIOUS
  <1>2. \A i \in S : ~Is(i, i)
    BY <1>1
  <1>3. \A i, j \in S : i # j => Is(i, j) \/ Is(j, i)
    BY <1>1
  <1>4. \A i, j, k \in S : Is(i, j) /\ Is(j, k) => Is(i, k)
    BY <1>1
  <1>5. \A i, j \in S : <<i, j>> \in less <=> Is(i, j)
    OBVIOUS
  <1> HIDE DEF Is
  <1>6. QED
    BY <1>2, <1>3, <1>4, <1>5 DEF Orders

\* A listing as long as the market is the listing itself.
LEMMA WholeList ==
    ASSUME NEW S, NEW s \in Seq(S)
    PROVE  Take(Len(s), s) = s
  <1>1. Len(s) \in Nat
    BY LenProperties
  <1>2. /\ Take(Len(s), s) \in Seq(S) /\ Len(Take(Len(s), s)) = Len(s)
        /\ \A i \in 1..Len(s) : Take(Len(s), s)[i] = s[i]
    BY <1>1, TakeLists DEF Least
  <1>3. QED
    BY <1>2, SeqEqual

LEMMA ListingIs ==
    ASSUME HarnessTypeOK, NEW q
    PROVE  /\ DOMAIN Listing(q) = DOMAIN market
           /\ \A i \in DOMAIN market : Listing(q)[i] = Probed(q, i)
  <1> DEFINE S == {Probed(q, i) : i \in DOMAIN market}
             all == [i \in DOMAIN market |-> Probed(q, i)]
  <1>1. all \in [DOMAIN market -> S]
    OBVIOUS
  <1>2. all \in Seq(S) /\ Len(all) = Len(market)
    <2> HIDE DEF all, S
    <2>1. QED
      BY <1>1, MarketFacts
  <1>3. Take(Len(all), all) = all
    <2> HIDE DEF all, S
    <2>1. QED
      BY <1>2, WholeList
  <1>4. Listing(q) = all
    BY <1>2, <1>3 DEF Listing
  <1>5. QED
    BY <1>4

\* The candidates are records that the query finds, each listed once.
LEMMA CandidatesLists ==
    ASSUME HarnessTypeOK, NEW q, NEW limit \in Nat
    PROVE  /\ Candidates(q, limit) \in Seq(Hits(q))
           /\ \A m, n \in 1..Len(Candidates(q, limit)) :
                  Candidates(q, limit)[m] = Candidates(q, limit)[n] => m = n
  <1> DEFINE D == Hits(q)
             a == [i \in D |-> IF Probed(q, i).candidate THEN 0 ELSE 1]
             b == [i \in D |-> Cardinality(Probed(q, i).blockers)]
             c == [i \in D |-> Probed(q, i).name]
             less == {ij \in D \X D : Before(Listing(q)[ij[1]], Listing(q)[ij[2]], ij[1] < ij[2])}
             ranking == InOrder(D, less)
  <1>1. D \in SUBSET Nat /\ IsFiniteSet(D) /\ D \subseteq DOMAIN market
    <2>1. IsFiniteSet(DOMAIN market)
      BY MarketFacts, FS_Interval
    <2>2. QED
      BY <2>1, HitsFacts, FS_Subset
  <1>2. a \in [D -> Nat]
    OBVIOUS
  <1>3. b \in [D -> Nat]
    <2> DEFINE B == {"manifest", "policy", "requirements", "platform", "collision", "probe"}
    <2>1. IsFiniteSet(B)
      <3>1. IsFiniteSet({"manifest"})
        BY FS_Singleton
      <3>2. IsFiniteSet({"manifest"} \cup {"policy"} \cup {"requirements"} \cup {"platform"}
                        \cup {"collision"} \cup {"probe"})
        BY <3>1, FS_AddElement
      <3>3. B = {"manifest"} \cup {"policy"} \cup {"requirements"} \cup {"platform"}
                 \cup {"collision"} \cup {"probe"}
        OBVIOUS
      <3>4. QED
        BY <3>2, <3>3
    <2>2. \A i \in D : Probed(q, i).blockers \in SUBSET B
      BY <1>1, CandidateParts
    <2> HIDE DEF B
    <2>3. \A i \in D : IsFiniteSet(Probed(q, i).blockers)
      BY <2>1, <2>2, FS_Subset
    <2>4. \A i \in D : Cardinality(Probed(q, i).blockers) \in Nat
      BY <2>3, FS_CardinalityType
    <2>5. QED
      BY <2>4
  <1>4. c \in [D -> Nat]
    BY <1>1, MarketFacts, CandidateParts
  <1>5. \A i, j \in D : <<i, j>> \in less <=>
            a[i] < a[j] \/ (a[i] = a[j] /\ (b[i] < b[j] \/ (b[i] = b[j] /\
                (c[i] < c[j] \/ (c[i] = c[j] /\ i < j)))))
    <2> TAKE i, j \in D
    <2>1. <<i, j>> \in less <=> Before(Probed(q, i), Probed(q, j), i < j)
      BY <1>1, ListingIs
    <2>2. Before(Probed(q, i), Probed(q, j), i < j) <=>
            a[i] < a[j] \/ (a[i] = a[j] /\ (b[i] < b[j] \/ (b[i] = b[j] /\
                (c[i] < c[j] \/ (c[i] = c[j] /\ i < j)))))
      BY DEF Before
    <2>3. QED
      BY <2>1, <2>2
  <1> HIDE DEF a, b, c, less
  <1>6. Orders(less, D)
    <2> HIDE DEF D
    <2>1. QED
      BY <1>1, <1>2, <1>3, <1>4, <1>5, ComparedByNumbers, SMTT(60)
  <1>7. /\ Cardinality(D) \in Nat
        /\ ranking \in [1..Cardinality(D) -> D]
        /\ \A m, n \in 1..Cardinality(D) : ranking[m] = ranking[n] => m = n
    BY <1>1, <1>6, InOrderLists
  <1>8. Ranking(Listing(q), D) = ranking
    BY DEF Ranking, less
  <1> HIDE DEF ranking
  <1>9. ranking \in Seq(D) /\ Len(ranking) = Cardinality(D)
    BY <1>7
  <1>10. Candidates(q, limit) = Take(limit, ranking)
    BY <1>8 DEF Candidates
  <1> HIDE DEF D
  <1>11. /\ Take(limit, ranking) \in Seq(D) /\ Len(Take(limit, ranking)) <= Len(ranking)
         /\ \A i \in 1..Len(Take(limit, ranking)) : Take(limit, ranking)[i] = ranking[i]
         /\ Len(Take(limit, ranking)) \in Nat
    BY <1>9, TakeLists, LenProperties
  <1>12. \A m \in 1..Len(Take(limit, ranking)) : m \in 1..Cardinality(D)
    BY <1>7, <1>9, <1>11
  <1>13. QED
    BY <1>7, <1>10, <1>11, <1>12 DEF D

\* What the queue counts on of a harness it takes, and of one it turns away.
Queueable(q, i) ==
    /\ Probed(q, i).candidate
    /\ Evaluation(market[i].name, TRUE).ok /\ Evaluation(market[i].name, TRUE).candidate
TurnedAway(q, i) ==
    \/ ~Probed(q, i).candidate
    \/ ~Evaluation(market[i].name, TRUE).ok \/ ~Evaluation(market[i].name, TRUE).candidate

\* The queue, the blocked and the skipped are records that the query finds, the queue's
\* each but once.
LEMMA QueueLists ==
    ASSUME HarnessTypeOK, NEW w, NEW limit \in Nat, NEW max \in Nat
    PROVE  LET q == InstallQueue(w, limit, max)
           IN  /\ q.queue \in Seq(Hits(w)) /\ q.blocked \in Seq(Hits(w))
               /\ q.skipped \in Seq(Hits(w))
               /\ \A k \in 1..Len(q.queue) : Queueable(w, q.queue[k])
               /\ \A m, n \in 1..Len(q.queue) : q.queue[m] = q.queue[n] => m = n
               /\ \A k \in 1..Len(q.blocked) : TurnedAway(w, q.blocked[k])
  <1> DEFINE D == DOMAIN market
             E == [i \in D |-> Evaluation(market[i].name, TRUE)]
             H == Hits(w)
             list == Candidates(w, limit)
             ready(i) == Listing(w)[i].candidate /\ ~Listing(w)[i].launchReady
             installable(i) == ready(i) /\ E[i].ok /\ E[i].candidate /\ ~E[i].launchReady
             blocked(i) == \/ ~Listing(w)[i].candidate
                           \/ ready(i) /\ (~E[i].ok \/ ~(E[i].launchReady \/ E[i].candidate))
             places(K) == {k \in DOMAIN list : list[k] \in K}
             of(K) == At(list, places(K))
             known == {list[k] : k \in DOMAIN list}
             I == {i \in known : installable(i)}
             B == {i \in known : blocked(i)}
             queue == Take(max, of(I))
             queued == {queue[k] : k \in DOMAIN queue}
             q == InstallQueue(w, limit, max)
  <1>1. Take(Len(market), E) = E
    <2>1. E \in Seq({E[i] : i \in D}) /\ Len(E) = Len(market)
      <3>1. E \in [D -> {E[i] : i \in D}]
        OBVIOUS
      <3> HIDE DEF E
      <3>2. QED
        BY <3>1, MarketFacts
    <2> HIDE DEF E
    <2>2. QED
      BY <2>1, WholeList
  <1>2. q = Queues(list, Listing(w), E, max)
    BY <1>1 DEF InstallQueue
  <1>3. q.queue = queue /\ q.blocked = of(B) /\ q.skipped = of(known \ (queued \cup B))
    <2> HIDE DEF list, E
    <2>1. QED
      BY <1>2 DEF Queues
  <1>4. /\ list \in Seq(H) /\ Len(list) \in Nat /\ H \subseteq D
        /\ DOMAIN list = 1..Len(list)
        /\ \A m, n \in 1..Len(list) : list[m] = list[n] => m = n
    BY CandidatesLists, LenProperties, HitsFacts
  <1>5. \A i \in I : Queueable(w, i)
    <2>1. \A i \in known : i \in D
      BY <1>4
    <2>2. QED
      BY <2>1, ListingIs DEF Queueable
  <1>6. \A i \in B : TurnedAway(w, i)
    <2>1. \A i \in known : i \in D
      BY <1>4
    <2>2. QED
      BY <2>1, ListingIs DEF TurnedAway
  <1> HIDE DEF q, list, E, installable, blocked, known, H
  <1>7. ASSUME NEW K
        PROVE  /\ of(K) \in Seq(H)
               /\ \A n \in 1..Len(of(K)) : of(K)[n] \in K
               /\ \A m, n \in 1..Len(of(K)) : of(K)[m] = of(K)[n] => m = n
    <2>1. places(K) \in SUBSET (DOMAIN list)
      OBVIOUS
    <2>2. \A k \in places(K) : list[k] \in K
      BY <1>4
    <2>3. \A k, l \in places(K) : list[k] = list[l] => k = l
      BY <1>4
    <2> HIDE DEF places
    <2>4. /\ of(K) \in Seq(H)
          /\ \A n \in 1..Len(of(K)) : \E k \in places(K) : of(K)[n] = list[k]
          /\ \A m, n \in 1..Len(of(K)) : of(K)[m] = of(K)[n] => m = n
      BY <1>4, <2>1, <2>3, AtLists
    <2>5. QED
      BY <2>2, <2>4
  <1> HIDE DEF of
  <1>8. /\ queue \in Seq(H)
        /\ \A k \in 1..Len(queue) : queue[k] \in I
        /\ \A m, n \in 1..Len(queue) : queue[m] = queue[n] => m = n
    <2> DEFINE all == of(I)
    <2> HIDE DEF I
    <2>1. /\ all \in Seq(H) /\ Len(all) \in Nat
          /\ \A n \in 1..Len(all) : all[n] \in I
          /\ \A m, n \in 1..Len(all) : all[m] = all[n] => m = n
      BY <1>7, LenProperties
    <2> HIDE DEF all
    <2>2. /\ Take(max, all) \in Seq(H) /\ Len(Take(max, all)) <= Len(all)
          /\ \A i \in 1..Len(Take(max, all)) : Take(max, all)[i] = all[i]
          /\ Len(Take(max, all)) \in Nat
      BY <2>1, TakeLists, LenProperties
    <2>3. \A i \in 1..Len(Take(max, all)) : i \in 1..Len(all)
      BY <2>1, <2>2
    <2>4. queue = Take(max, all)
      BY DEF all
    <2> HIDE DEF queue
    <2>5. QED
      BY <2>1, <2>2, <2>3, <2>4
  <1> HIDE DEF I, B, queue, queued
  <1>9. QED
    BY <1>3, <1>5, <1>6, <1>7, <1>8 DEF q, H

\* A queued record passes its gate as expected, and no other found has its capability.
LEMMA QueueableInstalls ==
    ASSUME NEW q, NEW i \in DOMAIN market, Queueable(q, i)
    PROVE  /\ GateExpected(i)
           /\ \A j \in Hits(q) \ {i} : CapOf[market[j].name] # CapOf[market[i].name]
  <1> DEFINE e == Evaluation(market[i].name, TRUE)
  <1>1. ~Collides(q, i) /\ ~ProbesBlock(Declared(market[i]))
    BY CandidateParts DEF Queueable
  <1>2. e.candidate <=> e.blockers = {}
    BY EvaluationParts
  <1>3. e.ok /\ e.candidate
    BY DEF Queueable
  <1> HIDE DEF e
  <1>4. GateOpen("install", e) \/ ProbesBlock(e.requires)
    BY <1>2, <1>3 DEF GateOpen
  <1>5. GateExpected(i)
    BY <1>1, <1>3, <1>4 DEF GateExpected, e
  <1>6. QED
    BY <1>1, <1>5 DEF Collides

LEMMA QueueInstallable == HarnessTypeOK => QueueIsInstallable
  <1> SUFFICES ASSUME HarnessTypeOK PROVE QueueIsInstallable
    OBVIOUS
  <1>1. ASSUME NEW q \in Query, NEW limit \in 1..Len(market), NEW max \in 1..Len(market)
        PROVE  \A i, j \in DOMAIN InstallQueue(q, limit, max).queue :
                   LET queue == InstallQueue(q, limit, max).queue
                   IN  /\ GateExpected(queue[i])
                       /\ i # j => CapOf[market[queue[i]].name] # CapOf[market[queue[j]].name]
    <2> DEFINE queue == InstallQueue(q, limit, max).queue
    <2>1. limit \in Nat /\ max \in Nat
      BY MarketFacts
    <2>2. /\ queue \in Seq(Hits(q))
          /\ \A k \in 1..Len(queue) : Queueable(q, queue[k])
          /\ \A m, n \in 1..Len(queue) : queue[m] = queue[n] => m = n
      BY <2>1, QueueLists
    <2> HIDE DEF queue
    <2>3. /\ DOMAIN queue = 1..Len(queue) /\ Hits(q) \subseteq DOMAIN market
          /\ \A k \in 1..Len(queue) : queue[k] \in Hits(q)
      BY <2>2, LenProperties, ElementOfSeq, HitsFacts
    <2>4. ASSUME NEW i \in 1..Len(queue), NEW j \in 1..Len(queue)
          PROVE  /\ GateExpected(queue[i])
                 /\ i # j => CapOf[market[queue[i]].name] # CapOf[market[queue[j]].name]
      <3>1. queue[i] \in DOMAIN market /\ Queueable(q, queue[i]) /\ queue[j] \in Hits(q)
        BY <2>2, <2>3
      <3>2. i # j => queue[j] # queue[i]
        BY <2>2
      <3>3. QED
        BY <3>1, <3>2, QueueableInstalls
    <2>5. QED
      BY <2>3, <2>4 DEF queue
  <1>2. QED
    BY <1>1 DEF QueueIsInstallable

(* What is blocked. *)

\* The categories of blockers: there is one for each that is known, and the next action
\* repairs an entry point only when one is missing.
LEMMA DecisionFacts ==
    ASSUME NEW blockers, blockers # {},
           blockers \subseteq {"cli-hub", "manifest", "policy", "requirements", "platform",
                               "entrypoint", "collision", "probe"}
    PROVE  LET d == Decision(blockers)
           IN  /\ d.ready /\ "unknown" \notin d.categories
               /\ d.next = "repair_entrypoint_or_market_metadata" =>
                      "entrypoint" \in blockers /\ ~d.override
  <1> DEFINE known == UNION {Category(b) : b \in blockers}
             d == Decision(blockers)
             missing == "installed-entrypoint-missing"
  <1>1. known # {} /\ "unknown" \notin known
    <2>1. \A b \in blockers : Category(b) # {} /\ "unknown" \notin Category(b)
      BY DEF Category
    <2>2. "unknown" \notin known
      BY <2>1
    <2>3. PICK b \in blockers : Category(b) # {}
      BY <2>1
    <2>4. known # {}
      BY <2>3
    <2>5. QED
      BY <2>2, <2>4
  <1>2. missing \in known => "entrypoint" \in blockers
    <2>1. \A b \in blockers : missing \in Category(b) => b = "entrypoint"
      BY DEF Category
    <2>2. QED
      BY <2>1
  <1>3. Categories(blockers) = known
    BY <1>1 DEF Categories
  <1> HIDE DEF known
  <1>4. /\ d.categories = known /\ d.ready = (known # {})
        /\ d.override = (known # {} /\ ~(missing \in known))
        /\ d.next = BlockedNextAction(known)
    BY <1>3 DEF Decision, DecisionOn
  <1>5. BlockedNextAction(known) = "repair_entrypoint_or_market_metadata" => missing \in known
    BY DEF BlockedNextAction
  <1>6. QED
    BY <1>1, <1>2, <1>4, <1>5

\* Without blockers there is no category, no override and nothing to do but to look.
LEMMA NoBlockers ==
    LET d == Decision({})
    IN  ~d.ready /\ ~d.override /\ d.categories = {} /\ d.next = "inspect_blockers"
  <1>1. Categories({}) = {}
    BY DEF Categories
  <1>2. QED
    BY <1>1 DEF Decision, DecisionOn, BlockedNextAction

LEMMA BlockedExplained == HarnessTypeOK => BlockedIsExplained
  <1> SUFFICES ASSUME HarnessTypeOK PROVE BlockedIsExplained
    OBVIOUS
  <1> DEFINE Explained(c, e, decision, lifecycle) ==
                /\ decision.ready <=> ~c.candidate \/ e.ok
                /\ "unknown" \notin decision.categories
                /\ ~decision.ready => ~decision.override /\ decision.next = "inspect_blockers"
                /\ decision.next = "repair_entrypoint_or_market_metadata" =>
                       RepairRequired(e) /\ ~decision.override
                /\ ~c.candidate =>
                       "ready" \notin {lifecycle.write, lifecycle.install, lifecycle.call}
  <1>1. ASSUME NEW q, NEW i \in DOMAIN market, TurnedAway(q, i)
        PROVE  Explained(Probed(q, i), Evaluation(market[i].name, TRUE),
                         Decision(BlockersOf(q, i)), Lifecycle(Probed(q, i)))
    <2> DEFINE e == Evaluation(market[i].name, TRUE)
               p == Probed(q, i)
    <2>1. /\ p.candidate <=> p.blockers = {}
          /\ p.blockers \subseteq {"manifest", "policy", "requirements", "platform", "collision", "probe"}
      BY CandidateParts
    <2>2. /\ e.candidate <=> e.blockers = {}
          /\ e.blockers \subseteq {"cli-hub", "manifest", "policy", "requirements", "platform", "entrypoint"}
          /\ "entrypoint" \in e.blockers => e.status.installed /\ ~e.status.entry
      <3>1. e.blockers = EvaluationBlockers(e.status, e.manifest, e.requires)
        BY EvaluationParts
      <3>2. e.candidate <=> e.blockers = {}
        BY EvaluationParts
      <3> HIDE DEF e
      <3>3. QED
        BY <3>1, <3>2 DEF EvaluationBlockers
    <2>3. BlockersOf(q, i) = p.blockers \cup (IF p.candidate /\ e.ok THEN e.blockers ELSE {})
      BY DEF BlockersOf
    <2>4. ~p.candidate \/ ~e.ok \/ ~e.candidate
      BY <1>1 DEF TurnedAway
    <2> DEFINE blockers == BlockersOf(q, i)
               d == Decision(blockers)
    <2> HIDE DEF e, p
    <2>5. ~p.candidate =>
              "ready" \notin {Lifecycle(p).write, Lifecycle(p).install, Lifecycle(p).call}
      <3>1. p.blockers # {} => "ready" \notin {Lifecycle(p).write, Lifecycle(p).install, Lifecycle(p).call}
        BY DEF Lifecycle, StageStatus
      <3>2. QED
        BY <2>1, <3>1
    <2>6. CASE p.candidate /\ ~e.ok
      <3>1. blockers = {}
        BY <2>1, <2>3, <2>6
      <3> HIDE DEF blockers
      <3>2. ~d.ready /\ ~d.override /\ d.categories = {} /\ d.next = "inspect_blockers"
        BY <3>1, NoBlockers
      <3> HIDE DEF d
      <3>3. Explained(p, e, d, Lifecycle(p))
        BY <2>6, <3>2
      <3>4. QED
        BY <3>3 DEF d, blockers, e, p
    <2>7. CASE ~p.candidate \/ e.ok
      <3>1. /\ blockers # {}
            /\ blockers \subseteq {"cli-hub", "manifest", "policy", "requirements", "platform",
                                   "entrypoint", "collision", "probe"}
            /\ "entrypoint" \in blockers => "entrypoint" \in e.blockers
        BY <2>1, <2>2, <2>3, <2>4, <2>7
      <3> HIDE DEF blockers
      <3>2. /\ d.ready /\ "unknown" \notin d.categories
            /\ d.next = "repair_entrypoint_or_market_metadata" =>
                   "entrypoint" \in blockers /\ ~d.override
        BY <3>1, DecisionFacts
      <3>3. "entrypoint" \in blockers => RepairRequired(e)
        BY <2>2, <3>1 DEF RepairRequired
      <3> HIDE DEF d
      <3>4. Explained(p, e, d, Lifecycle(p))
        BY <2>5, <2>7, <3>2, <3>3
      <3>5. QED
        BY <3>4 DEF d, blockers, e, p
    <2>8. QED
      BY <2>6, <2>7
  <1> HIDE DEF Explained
  <1>2. ASSUME NEW q \in Query, NEW limit \in 1..Len(market)
        PROVE  \A k \in DOMAIN InstallQueue(q, limit, 100).blocked :
                   LET i == InstallQueue(q, limit, 100).blocked[k]
                   IN  Explained(Probed(q, i), Evaluation(market[i].name, TRUE),
                                 BlockedPlan(q, limit)[k], Lifecycle(Probed(q, i)))
    <2> DEFINE blocked == InstallQueue(q, limit, 100).blocked
    <2>1. limit \in Nat /\ 100 \in Nat
      BY MarketFacts
    <2>2. blocked \in Seq(Hits(q)) /\ \A k \in 1..Len(blocked) : TurnedAway(q, blocked[k])
      BY <2>1, QueueLists
    <2>3. BlockedPlan(q, limit) = [k \in DOMAIN blocked |-> Decision(BlockersOf(q, blocked[k]))]
      BY DEF BlockedPlan
    <2> HIDE DEF blocked
    <2>4. /\ DOMAIN blocked = 1..Len(blocked) /\ Hits(q) \subseteq DOMAIN market
          /\ \A k \in 1..Len(blocked) : blocked[k] \in Hits(q)
      BY <2>2, LenProperties, ElementOfSeq, HitsFacts
    <2>5. ASSUME NEW k \in DOMAIN blocked
          PROVE  Explained(Probed(q, blocked[k]), Evaluation(market[blocked[k]].name, TRUE),
                           BlockedPlan(q, limit)[k], Lifecycle(Probed(q, blocked[k])))
      <3>1. blocked[k] \in DOMAIN market /\ TurnedAway(q, blocked[k])
        BY <2>2, <2>4
      <3>2. BlockedPlan(q, limit)[k] = Decision(BlockersOf(q, blocked[k]))
        BY <2>3
      <3>3. QED
        BY <1>1, <3>1, <3>2
    <2>6. QED
      BY <2>5 DEF blocked
  <1>3. QED
    BY <1>2 DEF BlockedIsExplained, Explained
-----------------------------------------------------------------------------
(* What is verified, and what may be promoted.                             *)

\* What a harness that is verified has passed.
LEMMA VerifiedFacts ==
    ASSUME NEW e, NEW smoke, VerificationBlockers(e, smoke) = {}
    PROVE  /\ pty /\ e.status.installed /\ Effective(e.status.cap) # NoManifest
           /\ ~RepairActive(InForce(e)) => e.launchReady
  <1> DEFINE repaired == RepairActive(InForce(e))
             S == {b \in {"probes", "not imported", "not installed", "transport", "launch", "smoke"} :
                      \/ b = "probes" /\ ProbesBlock(e.requires)
                      \/ b = "not imported" /\ Effective(e.status.cap) = NoManifest
                      \/ b = "not installed" /\ ~e.status.installed
                      \/ b = "transport" /\ ~pty
                      \/ b = "launch" /\ ~e.launchReady /\ ~repaired
                      \/ b = "smoke" /\ smoke = "failed"}
  <1>1. S = {}
    BY DEF VerificationBlockers
  <1> HIDE DEF repaired
  <1>2. /\ "transport" \notin S /\ "not installed" \notin S
        /\ "not imported" \notin S /\ "launch" \notin S
    BY <1>1
  <1>3. QED
    BY <1>2 DEF repaired

\* The manifest in force for a harness is one of those on disk, if there is one.
LEMMA InForceFacts ==
    ASSUME HubIInv, NEW h \in Name, Effective(Evaluation(h, TRUE).status.cap) # NoManifest
    PROVE  LET e == Evaluation(h, TRUE)
           IN  /\ InForce(e) = Effective(e.status.cap)
               /\ InForce(e) \in Manifest /\ Whole(InForce(e))
  <1> DEFINE e == Evaluation(h, TRUE)
  <1>1. e.status.cap \in Capability
    BY EvaluationFacts DEF HubIInv
  <1> HIDE DEF e
  <1>2. Effective(e.status.cap) # NoManifest
    BY DEF e
  <1>3. InForce(e) = Effective(e.status.cap)
    BY <1>2 DEF InForce
  <1>4. Effective(e.status.cap) \in {portable[e.status.cap], overlay[e.status.cap]} \ {NoManifest}
    BY <1>2 DEF Effective
  <1>5. QED
    BY <1>1, <1>3, <1>4, FilesWhole DEF e

LEMMA VerifiedStart ==
    ASSUME HubIInv, NEW h \in Name, NEW smoke,
           VerificationOf(Evaluation(h, TRUE), smoke).ready, InForce(Evaluation(h, TRUE)).of = h
    PROVE  Callable(InForce(Evaluation(h, TRUE)))
  <1> DEFINE e == Evaluation(h, TRUE)
  <1>1. VerificationBlockers(e, smoke) = {}
    BY DEF VerificationOf
  <1>2. /\ e.status.installed <=> hub /\ h \in installed
        /\ e.status.installed => (e.status.entry <=> h \in onPath)
        /\ e.launchReady => e.status.entry
    BY EvaluationParts
  <1> HIDE DEF e
  <1>3. /\ pty /\ e.status.installed /\ Effective(e.status.cap) # NoManifest
        /\ ~RepairActive(InForce(e)) => e.launchReady
    BY <1>1, VerifiedFacts
  <1>4. Whole(InForce(e))
    BY <1>3, InForceFacts DEF e
  <1>5. InForce(e).of = h
    BY DEF e
  <1>6. QED
    BY <1>2, <1>3, <1>4, <1>5 DEF Callable, Whole, e

LEMMA AllVerifiedStart == HubIInv => VerifiedStarts
  <1> SUFFICES ASSUME HubIInv PROVE VerifiedStarts
    OBVIOUS
  <1>1. ASSUME NEW h \in Name, NEW smoke \in Smoke
        PROVE  LET v == VerificationOf(Evaluation(h, TRUE), smoke)
               IN  v.ready /\ InForce(v.evaluation).of = h => Callable(InForce(v.evaluation))
    <2>1. VerificationOf(Evaluation(h, TRUE), smoke).evaluation = Evaluation(h, TRUE)
      BY DEF VerificationOf
    <2>2. QED
      BY <2>1, VerifiedStart
  <1>2. ASSUME NEW hs, LiveOk(hs, "passed", TRUE)
        PROVE  /\ LiveSummary(hs, "passed").verified = LiveSummary(hs, "passed").count
               /\ \A h \in hs :
                      VerificationStages(Verification(h, "passed"), "passed").dryRun = "ready"
    <2>1. \A h \in hs : Verification(h, "passed").ready
      BY <1>2 DEF LiveOk
    <2>2. {h \in hs : Verification(h, "passed").ready} = hs
      BY <2>1
    <2>3. LiveSummary(hs, "passed").verified = LiveSummary(hs, "passed").count
      BY <2>2 DEF LiveSummary
    <2>4. ASSUME NEW h \in hs
          PROVE  VerificationStages(Verification(h, "passed"), "passed").dryRun = "ready"
      <3> DEFINE e == Evaluation(h, TRUE)
                 v == Verification(h, "passed")
      <3>1. v.ready
        BY <2>1
      <3>2. v = VerificationOf(e, "passed")
        BY DEF Verification
      <3> HIDE DEF e, v
      <3>3. v.evaluation = e
        BY <3>2 DEF VerificationOf
      <3>4. v.ready <=> (e.ok /\ VerificationBlockers(e, "passed") = {})
        BY <3>2 DEF VerificationOf
      <3>5. VerificationBlockers(e, "passed") = {}
        BY <3>1, <3>4
      <3>6. Effective(e.status.cap) # NoManifest
        BY <3>5, VerifiedFacts
      <3>7. VerificationStages(v, "passed").dryRun = "ready"
        BY <3>3, <3>6 DEF VerificationStages
      <3>8. QED
        BY <3>7 DEF v
    <2>5. QED
      BY <2>3, <2>4
  <1>3. \A h \in Name :
          LET starts(v) ==
                  v.ready /\ InForce(v.evaluation).of = h => Callable(InForce(v.evaluation))
              always(e) == \A smoke \in Smoke : starts(VerificationOf(e, smoke))
          IN  always(Evaluation(h, TRUE))
    BY <1>1
  <1>4. \A h, i \in Name : LiveOk({h, i}, "passed", TRUE) =>
          /\ LiveSummary({h, i}, "passed").verified = LiveSummary({h, i}, "passed").count
          /\ VerificationStages(Verification(h, "passed"), "passed").dryRun = "ready"
    BY <1>2
  <1>5. QED
    BY <1>3, <1>4 DEF VerifiedStarts

\* There are seven requirements.
LEMMA SevenRequirements ==
    Cardinality({"overlay", "repair", "verification", "contract", "coverage", "smoke", "bridge"}) = 7
  <1> DEFINE A == {"overlay"}
             B == A \cup {"repair"}
             C == B \cup {"verification"}
             D == C \cup {"contract"}
             E == D \cup {"coverage"}
             F == E \cup {"smoke"}
             G == F \cup {"bridge"}
  <1>1. IsFiniteSet(A) /\ Cardinality(A) = 1 /\ "repair" \notin A
    BY FS_Singleton
  <1>2. /\ "verification" \notin B /\ "contract" \notin C /\ "coverage" \notin D
        /\ "smoke" \notin E /\ "bridge" \notin F
    OBVIOUS
  <1>3. G = {"overlay", "repair", "verification", "contract", "coverage", "smoke", "bridge"}
    OBVIOUS
  <1> HIDE DEF A
  <1>4. IsFiniteSet(B) /\ Cardinality(B) = 2
    BY <1>1, FS_AddElement
  <1> HIDE DEF B
  <1>5. IsFiniteSet(C) /\ Cardinality(C) = 3
    BY <1>2, <1>4, FS_AddElement
  <1> HIDE DEF C
  <1>6. IsFiniteSet(D) /\ Cardinality(D) = 4
    BY <1>2, <1>5, FS_AddElement
  <1> HIDE DEF D
  <1>7. IsFiniteSet(E) /\ Cardinality(E) = 5
    BY <1>2, <1>6, FS_AddElement
  <1> HIDE DEF E
  <1>8. IsFiniteSet(F) /\ Cardinality(F) = 6
    BY <1>2, <1>7, FS_AddElement
  <1> HIDE DEF F
  <1>9. Cardinality(F \cup {"bridge"}) = 6 + 1
    BY <1>2, <1>8, FS_AddElement
  <1>10. QED
    BY <1>3, <1>9

LEMMA PromotedWhole == HubIInv => PromotedIsWhole
  <1> SUFFICES ASSUME HubIInv PROVE PromotedIsWhole
    OBVIOUS
  <1>1. ASSUME NEW h \in Name, NEW smoke \in Smoke, NEW bridgeReady \in BOOLEAN,
               PromotionStatus(VerificationOf(Evaluation(h, TRUE), smoke), smoke, bridgeReady)
                   = "ready_for_promotion"
        PROVE  LET e == Evaluation(h, TRUE)
                   v == VerificationOf(e, smoke)
                   man == InForce(e)
               IN  /\ Cardinality(PassedRequirements(v, smoke, bridgeReady)) = 7
                   /\ h \in installed /\ wrapper[CapOf[man.of]] \in Importable
                   /\ man.verified /\ Covered(v.evaluation.status.cap, man.parser)
                   /\ smoke = "passed" /\ bridgeReady
    <2> DEFINE e == Evaluation(h, TRUE)
               v == VerificationOf(e, smoke)
               man == InForce(e)
               S == {b \in {"source", "repair", "unverified", "fixtures", "not listed", "smoke", "bridge"} :
                        \/ b = "source" /\ Source(e.status.cap) # "runtime_local_overlay"
                        \/ b = "repair" /\ ~RepairActive(man)
                        \/ b = "unverified" /\ ~man.verified
                        \/ b = "fixtures" /\ FixturesOf(man.parser) = {}
                        \/ b = "not listed" /\ ~Covered(e.status.cap, man.parser)
                        \/ b = "smoke" /\ smoke # "passed"
                        \/ b = "bridge" /\ ~bridgeReady}
    <2>1. v.evaluation = e /\ v.blockers = VerificationBlockers(e, smoke) /\ v.ok = e.ok
          /\ v.ready = (e.ok /\ VerificationBlockers(e, smoke) = {})
      BY DEF VerificationOf
    <2>2. e.status.installed <=> hub /\ h \in installed
      BY EvaluationParts
    <2>3. PromotionStatus(v, smoke, bridgeReady) = "ready_for_promotion"
      BY <1>1
    <2> HIDE DEF v, e
    <2>4. v.ok /\ PromotionBlockers(v, smoke, bridgeReady) = {}
      BY <2>3 DEF PromotionStatus
    <2>5. PromotionBlockers(v, smoke, bridgeReady) = v.blockers \cup S
      BY <2>1 DEF PromotionBlockers
    <2>6. v.blockers = {} /\ S = {}
      BY <2>4, <2>5
    <2> HIDE DEF man
    <2>7. /\ "source" \notin S /\ "repair" \notin S /\ "unverified" \notin S
          /\ "not listed" \notin S /\ "smoke" \notin S /\ "bridge" \notin S
      BY <2>6
    <2>8. /\ Source(e.status.cap) = "runtime_local_overlay" /\ RepairActive(man)
          /\ man.verified /\ Covered(e.status.cap, man.parser)
          /\ smoke = "passed" /\ bridgeReady
      BY <2>7
    <2> HIDE DEF S
    <2>9. v.ready
      BY <2>1, <2>4, <2>6
    <2>10. PassedRequirements(v, smoke, bridgeReady) =
               {"overlay", "repair", "verification", "contract", "coverage", "smoke", "bridge"}
      BY <2>1, <2>8, <2>9 DEF PassedRequirements, man
    <2>11. e.status.installed /\ Effective(e.status.cap) # NoManifest
      BY <2>1, <2>6, VerifiedFacts
    <2>12. Whole(man)
      BY <2>11, InForceFacts DEF e, man
    <2>13. wrapper[CapOf[man.of]] \in Importable
      BY <2>8, <2>12 DEF Whole
    <2>14. QED
      BY <2>1, <2>2, <2>8, <2>10, <2>11, <2>13, SevenRequirements DEF v, e, man
  <1>2. QED
    BY <1>1 DEF PromotedIsWhole
-----------------------------------------------------------------------------
(* What the gates and plans recommend.                                     *)

\* What decides in an adaptation gate.
LEMMA GateParts ==
    ASSUME NEW h, NEW ran \in BOOLEAN
    PROVE  LET e == Evaluation(h, TRUE)
               g == AdaptationGate(h, NoModule, TRUE, ran)
           IN  /\ g.native <=> e.ok /\ e.launchReady
               /\ g.repair => /\ e.ok /\ e.status.installed /\ RepairRequired(e)
                              /\ e.blockers \ {"entrypoint"} = {}
               /\ g.ready => /\ g.repair /\ g.selected # NoModule
                             /\ g.smoke = "passed" /\ SmokeOk(g.selected)
               /\ g.next = "run_adapter_smoke" => g.repair
  <1> DEFINE e == Evaluation(h, TRUE)
             g == AdaptationGate(h, NoModule, TRUE, ran)
             native == e.ok /\ e.launchReady
             repair == RepairScan(e, NoModule) \in {"requested", "allowed"} /\ RepairRequired(e)
             selected == IF NoModule = NoModule /\ repair /\ Target[h] # <<>>
                         THEN Head(Target[h]) ELSE NoModule
             smoked == IF repair THEN selected ELSE NoModule
             status == SmokeStatus(TRUE, smoked, ran)
  <1>1. g = GateSummary(native, repair, selected, status)
    BY DEF AdaptationGate
  <1>2. repair => /\ e.ok /\ e.status.installed /\ RepairRequired(e)
                  /\ e.blockers \ {"entrypoint"} = {}
    <2> HIDE DEF e
    <2>1. QED
      BY DEF RepairScan
  <1>3. repair => smoked = selected
    <2> HIDE DEF repair, selected
    <2>1. QED
      OBVIOUS
  <1> HIDE DEF native, repair, selected, smoked, g
  <1>4. status # "not_required" /\ (status = "passed" => SmokeOk(smoked))
    BY DEF SmokeStatus
  <1> HIDE DEF status
  <1> DEFINE ready == repair /\ selected # NoModule /\ status \in {"not_required", "passed"}
  <1>5. /\ g.native = native /\ g.repair = repair /\ g.selected = selected
        /\ g.smoke = status /\ g.ready = ready
        /\ g.next = AdaptationNext(native, repair, selected, status, ready)
    BY <1>1 DEF GateSummary
  <1> HIDE DEF ready
  <1>6. AdaptationNext(native, repair, selected, status, ready) = "run_adapter_smoke" => repair
    BY DEF AdaptationNext
  <1>7. g.native <=> e.ok /\ e.launchReady
    BY <1>5 DEF native
  <1>8. g.ready <=> ready
    BY <1>5 DEF ready
  <1>9. g.repair <=> repair
    BY <1>5 DEF repair
  <1>10. ready => repair /\ selected # NoModule /\ status = "passed" /\ SmokeOk(selected)
    BY <1>3, <1>4 DEF ready
  <1>11. QED
    BY <1>2, <1>5, <1>6, <1>7, <1>8, <1>9, <1>10 DEF e, g

\* A harness that can be launched without a wrapper is installed and on PATH; a portable
\* manifest that starts a wrapper finds it.
LEMMA NativeLaunches ==
    ASSUME HubIInv, NEW h \in Name, Evaluation(h, TRUE).launchReady
    PROVE  LET man == Evaluation(h, TRUE).manifest IN Callable(man) \/ man.of # h
  <1> DEFINE e == Evaluation(h, TRUE)
             s == Status(h, TRUE)
             man == OnDisk(s.name, s.record)
  <1>1. pty /\ hub /\ h \in onPath
    BY EvaluationParts
  <1>2. s.name \in Name /\ CapOf[s.name] \in Capability
    BY StatusFacts, NameAssumption DEF HubIInv, HarnessIInv
  <1>3. e.manifest = man
    BY DEF Evaluation, EvaluationOf, Assessment
  <1> HIDE DEF e, s
  <1>4. Whole(man)
    <2>1. CASE portable[CapOf[s.name]] = NoManifest
      BY <2>1 DEF OnDisk, ManifestFor, Whole, RepairActive
    <2>2. CASE portable[CapOf[s.name]] # NoManifest
      BY <1>2, <2>2, FilesWhole DEF OnDisk
    <2>3. QED
      BY <2>1, <2>2
  <1> HIDE DEF man
  <1>5. Callable(man) \/ man.of # h
    BY <1>1, <1>4 DEF Callable, Whole
  <1>6. QED
    BY <1>3, <1>5 DEF e

LEMMA AllGatesAgree == HubIInv => GatesAgree
  <1> SUFFICES ASSUME HubIInv, NEW h \in Name
               PROVE  LET g == AdaptationGate(h, NoModule, TRUE, TRUE)
                          e == Evaluation(h, TRUE)
                          stages == AdaptationStages(h, g)
                      IN  /\ g.ready =>
                              /\ e.ok /\ e.manifest.valid /\ Strategy(h, e, g.selected).ready
                              /\ SmokeGate(TRUE, TRUE, g.selected)
                              /\ "blocked" \notin {stages[s] : s \in DOMAIN stages \ {"native"}}
                          /\ g.native => Callable(e.manifest) \/ e.manifest.of # h
    BY DEF GatesAgree
  <1> DEFINE g == AdaptationGate(h, NoModule, TRUE, TRUE)
             e == Evaluation(h, TRUE)
             stages == AdaptationStages(h, g)
  <1>1. /\ g.native <=> e.ok /\ e.launchReady
        /\ g.repair => /\ e.ok /\ e.status.installed /\ RepairRequired(e)
                       /\ e.blockers \ {"entrypoint"} = {}
        /\ g.ready => /\ g.repair /\ g.selected # NoModule
                      /\ g.smoke = "passed" /\ SmokeOk(g.selected)
    BY GateParts
  <1>2. g.native => Callable(e.manifest) \/ e.manifest.of # h
    BY <1>1, NativeLaunches
  <1>3. e.blockers = EvaluationBlockers(e.status, e.manifest, e.requires)
    BY EvaluationParts
  <1>4. stages = [evaluate |-> stages.evaluate, installed |-> stages.installed,
                  native |-> stages.native, plan |-> stages.plan, target |-> stages.target,
                  smoke |-> stages.smoke, write |-> stages.write]
    <2> HIDE DEF g
    <2>1. QED
      BY DEF AdaptationStages
  <1> HIDE DEF g
  <1>5. ASSUME g.ready
        PROVE  /\ stages.evaluate = "completed" /\ stages.installed = "completed"
               /\ stages.plan = "completed" /\ stages.target = "completed"
               /\ stages.smoke = "completed" /\ stages.write = "ready"
    <2>1. e.ok /\ e.status.installed /\ g.repair /\ g.selected # NoModule /\ g.smoke = "passed"
      BY <1>1, <1>5
    <2>2. QED
      BY <1>5, <2>1 DEF AdaptationStages
  <1> HIDE DEF stages, e
  <1>6. ASSUME g.ready
        PROVE  /\ e.ok /\ e.manifest.valid /\ Strategy(h, e, g.selected).ready
               /\ SmokeGate(TRUE, TRUE, g.selected)
    <2>1. /\ e.ok /\ RepairRequired(e) /\ "manifest" \notin e.blockers
          /\ g.selected # NoModule /\ SmokeOk(g.selected)
      BY <1>1, <1>6
    <2>2. e.manifest.valid
      BY <1>3, <2>1 DEF EvaluationBlockers
    <2>3. g.selected \in Importable
      BY <2>1, ModuleAssumption DEF SmokeOk
    <2>4. QED
      BY <2>1, <2>2, <2>3 DEF Strategy, SmokeGate
  <1>7. ASSUME g.ready
        PROVE  "blocked" \notin {stages[s] : s \in DOMAIN stages \ {"native"}}
    <2>1. DOMAIN stages = {"evaluate", "installed", "native", "plan", "target", "smoke", "write"}
      BY <1>4
    <2>2. \A s \in DOMAIN stages \ {"native"} : stages[s] # "blocked"
      BY <1>5, <1>7, <2>1
    <2>3. QED
      BY <2>2
  <1>8. QED
    BY <1>2, <1>6, <1>7 DEF g, e, stages

\* The harnesses of the queue come first among those that are named.
LEMMA QueuedNamesLists ==
    ASSUME HarnessTypeOK, NEW w, NEW limit \in Nat, NEW max \in Nat, max >= 1
    PROVE  LET names == QueuedNames(w, limit, max)
               queue == InstallQueue(w, limit, max).queue
           IN  /\ names \in Seq(Name)
               /\ queue # <<>> => 1 \in DOMAIN queue /\ names[1] = market[queue[1]].name
  <1> DEFINE q == InstallQueue(w, limit, max)
             listed == q.queue \o q.blocked \o q.skipped
             all == [k \in DOMAIN listed |-> market[listed[k]].name]
             first == {k \in DOMAIN all : \A j \in 1..(k - 1) : all[j] # all[k]}
             distinct == At(all, first)
             names == QueuedNames(w, limit, max)
             queue == q.queue
  <1>1. names = Take(max, distinct)
    BY DEF QueuedNames, Distinct
  <1>2. /\ queue \in Seq(DOMAIN market) /\ q.blocked \in Seq(DOMAIN market)
        /\ q.skipped \in Seq(DOMAIN market)
    <2>1. Seq(Hits(w)) \subseteq Seq(DOMAIN market)
      BY HitsFacts
    <2>2. /\ queue \in Seq(Hits(w)) /\ q.blocked \in Seq(Hits(w)) /\ q.skipped \in Seq(Hits(w))
      BY QueueLists
    <2> HIDE DEF q
    <2>3. QED
      BY <2>1, <2>2
  <1> DEFINE others == q.blocked \o q.skipped
  <1> HIDE DEF q
  <1>3. /\ listed \in Seq(DOMAIN market) /\ Len(listed) >= Len(queue) /\ Len(queue) \in Nat
        /\ \A k \in 1..Len(queue) : listed[k] = queue[k]
    <2> HIDE DEF queue
    <2>1. /\ (queue \o q.blocked) \in Seq(DOMAIN market)
          /\ Len(queue \o q.blocked) = Len(queue) + Len(q.blocked)
          /\ \A k \in 1..Len(queue) : (queue \o q.blocked)[k] = queue[k]
          /\ Len(queue) \in Nat /\ Len(q.blocked) \in Nat /\ Len(q.skipped) \in Nat
      BY <1>2, ConcatProperties, LenProperties
    <2> DEFINE both == queue \o q.blocked
    <2>2. /\ (both \o q.skipped) \in Seq(DOMAIN market)
          /\ Len(both \o q.skipped) = Len(both) + Len(q.skipped)
          /\ \A k \in 1..Len(both) : (both \o q.skipped)[k] = both[k]
      <3> HIDE DEF both
      <3>1. both \in Seq(DOMAIN market)
        BY <2>1 DEF both
      <3>2. QED
        BY <3>1, <1>2, ConcatProperties
    <2>3. listed = both \o q.skipped
      BY DEF queue
    <2>4. /\ Len(both) = Len(queue) + Len(q.blocked)
          /\ \A k \in 1..Len(queue) : both[k] = queue[k]
      BY <2>1
    <2> HIDE DEF listed, both
    <2>5. Len(listed) >= Len(both) /\ Len(both) >= Len(queue) /\ Len(both) \in Nat
      BY <2>1, <2>2, <2>3, <2>4
    <2>6. \A k \in 1..Len(queue) : k \in 1..Len(both) /\ listed[k] = queue[k]
      BY <2>1, <2>2, <2>3, <2>4, <2>5
    <2>7. Len(listed) \in Nat /\ listed \in Seq(DOMAIN market)
      BY <2>2, <2>3, LenProperties
    <2>8. QED
      BY <2>1, <2>5, <2>6, <2>7
  <1> HIDE DEF listed, queue
  <1>4. /\ all \in Seq(Name) /\ Len(all) = Len(listed) /\ Len(all) \in Nat
        /\ DOMAIN all = 1..Len(all)
        /\ \A k \in 1..Len(listed) : all[k] = market[listed[k]].name
    <2>1. /\ Len(listed) \in Nat /\ DOMAIN listed = 1..Len(listed)
          /\ \A k \in 1..Len(listed) : market[listed[k]].name \in Name
      BY <1>3, LenProperties, ElementOfSeq, MarketFacts
    <2>2. QED
      BY <2>1
  <1> HIDE DEF all
  <1>5. first \in SUBSET (DOMAIN all)
    OBVIOUS
  <1>6. Len(all) >= 1 => 1 \in first
    BY <1>4
  <1> HIDE DEF first
  <1>7. /\ distinct \in Seq(Name)
        /\ Len(all) >= 1 => Len(distinct) > 0 /\ distinct[1] = all[1]
    BY <1>4, <1>5, <1>6, AtLists
  <1> HIDE DEF distinct, names
  <1>8. /\ names \in Seq(Name) /\ Len(names) = Least(max, Len(distinct))
        /\ \A i \in 1..Len(names) : names[i] = distinct[i]
    BY <1>1, <1>7, TakeLists
  <1>9. ASSUME queue # <<>>
        PROVE  1 \in DOMAIN queue /\ names[1] = market[queue[1]].name
    <2>1. Len(queue) >= 1 /\ 1 \in DOMAIN queue
      BY <1>2, <1>9 DEF queue
    <2>2. Len(all) >= 1 /\ all[1] = market[queue[1]].name
      BY <1>3, <1>4, <2>1
    <2>3. Len(distinct) \in Nat /\ Len(distinct) >= 1 /\ distinct[1] = market[queue[1]].name
      BY <1>7, <2>2, LenProperties
    <2>4. 1 \in 1..Len(names)
      BY <1>8, <2>3 DEF Least
    <2>5. QED
      BY <1>8, <2>1, <2>3, <2>4
  <1>10. QED
    BY <1>8, <1>9 DEF names, queue, q

\* A harness whose gate asks for a smoke run is installed and misses its entry point.
LEMMA SmokeAwaits ==
    ASSUME NEW h, AdaptationGate(h, NoModule, TRUE, FALSE).next = "run_adapter_smoke"
    PROVE  h \in installed \ onPath /\ RepairRequired(Evaluation(h, TRUE))
  <1> DEFINE e == Evaluation(h, TRUE)
  <1>1. e.ok /\ e.status.installed /\ RepairRequired(e)
    BY GateParts
  <1>2. /\ e.status.installed <=> hub /\ h \in installed
        /\ e.status.installed => (e.status.entry <=> h \in onPath)
    BY EvaluationParts
  <1> HIDE DEF e
  <1>3. ~e.status.entry
    BY <1>1 DEF RepairRequired
  <1>4. QED
    BY <1>1, <1>2, <1>3 DEF e

\* The next step of the MVP plan can be taken.
LEMMA MvpDoable ==
    ASSUME HarnessTypeOK, NEW w, NEW max \in 1..Len(market),
           NEW env, env = [downloaded |-> TRUE, trusted |-> TRUE, installGate |-> TRUE]
    PROVE  LET m == MvpSummary(env, w, Len(market), max, TRUE, FALSE)
               names == QueuedNames(w, Len(market), max)
               queue == InstallQueue(w, Len(market), max).queue
           IN  /\ MvpNext(m) = "install_next_market_harness" =>
                      /\ queue # <<>> /\ names[1] = market[queue[1]].name
                      /\ GateExpected(queue[1]) /\ MvpStages(m).install = "next"
               /\ MvpNext(m) = "run_adapter_smoke" =>
                      /\ MvpStages(m).adapt = "ready"
                      /\ \E k \in DOMAIN names :
                             /\ names[k] \in installed \ onPath
                             /\ RepairRequired(Evaluation(names[k], TRUE))
  <1> DEFINE limit == Len(market)
             names == QueuedNames(w, limit, max)
             installs == InstallQueue(w, limit, max)
             queue == installs.queue
             gates == [k \in DOMAIN names |-> AdaptationGate(names[k], NoModule, TRUE, FALSE)]
             taken == Take(max, gates)
             adaptations == AdaptationQueue(w, limit, max, FALSE)
             m == MvpSummary(env, w, limit, max, TRUE, FALSE)
  <1>1. limit \in Nat /\ max \in Nat /\ max >= 1
    BY MarketFacts
  <1>2. /\ queue \in Seq(Hits(w)) /\ Hits(w) \subseteq DOMAIN market
        /\ \A k \in 1..Len(queue) : Queueable(w, queue[k])
    BY <1>1, QueueLists, HitsFacts
  <1>3. /\ names \in Seq(Name)
        /\ queue # <<>> => 1 \in DOMAIN queue /\ names[1] = market[queue[1]].name
    BY <1>1, QueuedNamesLists
  <1>4. adaptations = Sorted(names, taken)
    BY DEF AdaptationQueue
  <1>5. m = Summary(env, installs, adaptations, TRUE, FALSE)
    BY DEF MvpSummary
  <1> HIDE DEF m, names, installs, queue
  <1>6. queue # <<>> => names[1] = market[queue[1]].name /\ GateExpected(queue[1])
    <2> SUFFICES ASSUME queue # <<>>
                 PROVE  names[1] = market[queue[1]].name /\ GateExpected(queue[1])
      OBVIOUS
    <2>1. 1 \in 1..Len(queue) /\ queue[1] \in DOMAIN market
      BY <1>2, <1>3, LenProperties, ElementOfSeq
    <2>2. QED
      BY <1>2, <1>3, <2>1, QueueableInstalls
  <1>7. ASSUME NEW k \in DOMAIN taken, taken[k].next = "run_adapter_smoke"
        PROVE  /\ k \in DOMAIN names /\ names[k] \in installed \ onPath
               /\ RepairRequired(Evaluation(names[k], TRUE))
    <2>1. Len(names) \in Nat /\ DOMAIN names = 1..Len(names)
      BY <1>3, LenProperties
    <2>2. gates \in Seq({gates[i] : i \in DOMAIN names}) /\ Len(gates) = Len(names)
      <3>1. gates \in [DOMAIN names -> {gates[i] : i \in DOMAIN names}]
        OBVIOUS
      <3> HIDE DEF gates
      <3>2. QED
        BY <2>1, <3>1
    <2> HIDE DEF gates
    <2>3. /\ taken \in Seq({gates[i] : i \in DOMAIN names}) /\ Len(taken) <= Len(gates)
          /\ \A i \in 1..Len(taken) : taken[i] = gates[i]
      BY <1>1, <2>2, TakeLists
    <2> HIDE DEF taken
    <2>4. Len(taken) \in Nat /\ DOMAIN taken = 1..Len(taken)
      BY <2>3, LenProperties
    <2>5. k \in DOMAIN names /\ taken[k] = gates[k]
      BY <2>1, <2>2, <2>3, <2>4
    <2>6. AdaptationGate(names[k], NoModule, TRUE, FALSE).next = "run_adapter_smoke"
      BY <1>7, <2>5 DEF gates
    <2>7. QED
      BY <2>5, <2>6, SmokeAwaits
  <1> HIDE DEF taken, adaptations
  <1>8. adaptations.smoke = {k \in DOMAIN taken : taken[k].next = "run_adapter_smoke"}
    BY <1>4 DEF Sorted
  <1>9. /\ m.downloaded /\ m.queued = Len(queue)
        /\ m.nextDownload <=> queue # <<>>
        /\ m.smoke <=> adaptations.smoke # {}
        /\ m.smoke => m.adaptable
    BY <1>5 DEF Summary, queue
  <1>10. /\ MvpNext(m) = "install_next_market_harness" => m.queued > 0
         /\ MvpNext(m) = "run_adapter_smoke" => m.smoke
    BY DEF MvpNext
  <1>11. /\ m.nextDownload => MvpStages(m).install = "next"
         /\ m.adaptable => MvpStages(m).adapt = "ready"
    BY DEF MvpStages
  <1>12. m.queued > 0 => queue # <<>>
    BY <1>9
  <1>13. QED
    BY <1>6, <1>7, <1>8, <1>9, <1>10, <1>11, <1>12 DEF m, names, queue, installs

\* The bootstrap plan sends to the first harness when no stage is open.
LEMMA BootstrapDone ==
    ASSUME NEW q, NEW ok, NEW env,
           BootstrapNext(Bootstrap(q, ok, env, TRUE)) = "onboard_first_market_harness"
    PROVE  LET stages == BootstrapStages(Bootstrap(q, ok, env, TRUE))
           IN  {stages[s] : s \in DOMAIN stages} \subseteq {"complete", "ready"}
  <1> DEFINE b == Bootstrap(q, ok, env, TRUE)
             stages == BootstrapStages(b)
  <1>1. b.downloaded /\ b.trusted /\ b.entry /\ b.gate /\ b.market /\ b.onboarding /\ b.lifecycle
    <2> HIDE DEF b
    <2>1. QED
      BY DEF BootstrapNext, b
  <1> HIDE DEF b
  <1>2. stages = [preflight |-> "complete", download |-> "complete", provenance |-> "complete",
                  updates |-> "ready", market |-> "complete", onboard |-> "ready",
                  lifecycle |-> "complete"]
    BY <1>1 DEF BootstrapStages
  <1> HIDE DEF stages
  <1>3. {stages[s] : s \in DOMAIN stages} \subseteq {"complete", "ready"}
    BY <1>2
  <1>4. QED
    BY <1>3 DEF stages, b

LEMMA AllPlansAgree == HarnessTypeOK => PlansAgree
  <1> SUFFICES ASSUME HarnessTypeOK PROVE PlansAgree
    OBVIOUS
  <1>1. ASSUME NEW q \in Query, NEW max \in 1..Len(market)
        PROVE  LET env == [downloaded |-> TRUE, trusted |-> TRUE, installGate |-> TRUE]
                   m == MvpSummary(env, q, Len(market), max, TRUE, FALSE)
                   names == QueuedNames(q, Len(market), max)
                   queue == InstallQueue(q, Len(market), max).queue
               IN  /\ MvpNext(m) = "install_next_market_harness" =>
                          /\ queue # <<>> /\ names[1] = market[queue[1]].name
                          /\ GateExpected(queue[1]) /\ MvpStages(m).install = "next"
                   /\ MvpNext(m) = "run_adapter_smoke" =>
                          /\ MvpStages(m).adapt = "ready"
                          /\ \E k \in DOMAIN names :
                                 /\ names[k] \in installed \ onPath
                                 /\ RepairRequired(Evaluation(names[k], TRUE))
    BY MvpDoable
  <1>2. ASSUME NEW h \in Name, NEW q \in Query, NEW env \in Environment,
               BootstrapNext(Bootstrap(q, Evaluation(h, hub).ok, env, TRUE)) =
                   "onboard_first_market_harness"
        PROVE  LET stages == BootstrapStages(Bootstrap(q, Evaluation(h, hub).ok, env, TRUE))
               IN  {stages[s] : s \in DOMAIN stages} \subseteq {"complete", "ready"}
    BY <1>2, BootstrapDone
  <1>3. QED
    BY <1>1, <1>2 DEF PlansAgree
-----------------------------------------------------------------------------
\* However manifests are regenerated, synchronised, repaired, edited and moved, and
\* wherever a repair stops, a manifest that says it is verified has passing fixtures
\* that list its capability for its parser (_preserve_existing_parser_contract,
\* _mark_repaired_manifest_verified_from_fixtures).
THEOREM VerifiedCovered == Spec => []VerifiedIsCovered
  <1>1. HarnessIInv => VerifiedIsCovered
    BY DEF HarnessIInv
  <1>2. QED
    BY <1>1, HarnessInitOK, HarnessStepInv, PTL DEF Spec

\* What market_install_queue queues, for any query, market and limits, meets nothing at
\* the gate of its install but a probe of what its own record does not declare, and no two
\* entries have one capability (market_install_queue, harness_operation_gate,
\* _mark_candidate_collisions, _declared_requires).
THEOREM QueuesInstallable == Spec => []QueueIsInstallable
  <1>1. HarnessIInv => QueueIsInstallable
    BY QueueInstallable DEF HarnessIInv
  <1>2. QED
    BY <1>1, HarnessInitOK, HarnessStepInv, PTL DEF Spec

\* Every harness that the queue turns away is explained by blocked_harness_plan exactly if
\* it was evaluated: in a category, with a repair offered only where an entry point is
\* missing, and no step of its lifecycle ready; one whose evaluation failed is unresolved,
\* without an override (_blocker_categories, _blocked_harness_decision).
THEOREM BlockedAlwaysExplained == Spec => []BlockedIsExplained
  <1>1. HarnessIInv => BlockedIsExplained
    BY BlockedExplained DEF HarnessIInv
  <1>2. QED
    BY <1>1, HarnessInitOK, HarnessStepInv, PTL DEF Spec

\* Whatever is edited, moved or regenerated and wherever a repair stops, a manifest that
\* starts a wrapper finds one, which runs a module that can be imported
\* (repair_entrypoint, _entrypoint_wrapper_path).
THEOREM HubInvariant == Spec => []HubIInv
  BY HubInit, HubStep, PTL DEF Spec

\* What verify_harness finds ready by its own manifest can be started, live_verification
\* counts no other, and what promotion_gate lets become portable is a whole repair.
THEOREM VerifiedAlwaysRuns == Spec => []VerifiedRuns
  <1>1. HubIInv => VerifiedRuns
    BY AllVerifiedStart, PromotedWhole DEF VerifiedRuns
  <1>2. QED
    BY <1>1, HubInvariant, PTL

\* A repair that adaptation_gate calls ready is not refused, what it calls native can be
\* launched, and what mvp_plan and bootstrap_plan recommend can be done: the install they
\* send to meets nothing but what QueuesInstallable allows.
THEOREM PlansAlwaysActionable == Spec => []PlansAreActionable
  <1>1. HubIInv => PlansAreActionable
    BY AllGatesAgree, AllPlansAgree DEF PlansAreActionable, HubIInv, HarnessIInv
  <1>2. QED
    BY <1>1, HubInvariant, PTL
=============================================================================
