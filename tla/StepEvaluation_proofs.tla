----------------------- MODULE StepEvaluation_proofs -----------------------
(***************************************************************************)
(* Proofs about StepEvaluation, for every configuration, constraint and    *)
(* assignment of the variables: what a constructor encodes applyStep       *)
(* decodes, and the predicates that are meant to agree do.                 *)
(***************************************************************************)
EXTENDS StepEvaluation, SequenceTheorems, TLAPS

(***************************************************************************)
(* The parameter kind of a test of some shape, and what makes a list of    *)
(* integers a test for a constraint.  Where the list ends is not part of   *)
(* it, only how the flag there is read.                                    *)
(***************************************************************************)
ParamKind(shape) ==
    CASE shape = <<0, 0>> -> 0
      [] shape = <<1, 0>> -> 1
      [] shape = <<2, 0>> -> 2
      [] shape = <<3, 0>> -> 3
      [] shape = <<1, 1>> -> OneIfaceOneValue
      [] shape = <<1, 2>> -> OneIfaceTwoValues

Reads(test, c) ==
    /\ test[1] = CodeOf[c.kind]
    /\ test[2] = ParamKind(Shape(c))
    /\ \A k \in 1 .. Len(c.vars) : test[2 + k] = c.vars[k]
    /\ \A k \in 1 .. Len(c.values) : test[2 + Len(c.vars) + k] = c.values[k]
    /\ Negated(test) <=> c.negated

Shapes == {<<0, 0>>, <<1, 0>>, <<2, 0>>, <<3, 0>>, <<1, 1>>, <<1, 2>>}

LEMMA KnownShape ==
    ASSUME NEW c \in Constraints
    PROVE  Shape(c) \in Shapes
<1>1. c.kind \in DOMAIN ShapeOf /\ Shape(c) = ShapeOf[c.kind]
  BY ConstraintsAssumption
<1>2. \A kind \in DOMAIN ShapeOf : ShapeOf[kind] \in Shapes
  BY DEF ShapeOf, Shapes
<1> QED BY <1>1, <1>2

LEMMA EncodedReads ==
    ASSUME NEW c \in Constraints
    PROVE  /\ Reads(Encode(c), c)
           /\ Len(Encode(c)) = 3 + Len(c.vars) + Len(c.values)
<1> USE DEF Reads, ParamKind, Negated, NegationIdx, OneIfaceOneValue, OneIfaceTwoValues,
            Positive, Negative
<1> DEFINE Goal == Reads(Encode(c), c) /\ Len(Encode(c)) = 3 + Len(c.vars) + Len(c.values)
<1> DEFINE flag == IF c.negated THEN Negative ELSE Positive
<1>1. CASE Shape(c) = <<0, 0>>
  <2>1. Len(c.vars) = 0 /\ Len(c.values) = 0
    BY <1>1 DEF Shape
  <2>2. PICK test : test = Encode(c)
    OBVIOUS
  <2>3. test = <<CodeOf[c.kind], 0, flag>>
    BY <1>1, <2>2 DEF Encode, Step0
  <2> QED BY <1>1, <2>1, <2>2, <2>3
<1>2. CASE Shape(c) = <<1, 0>>
  <2>1. Len(c.vars) = 1 /\ Len(c.values) = 0
    BY <1>2 DEF Shape
  <2>2. PICK test : test = Encode(c)
    OBVIOUS
  <2>3. test = <<CodeOf[c.kind], 1, c.vars[1], flag>>
    BY <1>2, <2>2 DEF Encode, Step1
  <2> QED BY <1>2, <2>1, <2>2, <2>3
<1>3. CASE Shape(c) = <<2, 0>>
  <2>1. Len(c.vars) = 2 /\ Len(c.values) = 0
    BY <1>3 DEF Shape
  <2>2. PICK test : test = Encode(c)
    OBVIOUS
  <2>3. test = <<CodeOf[c.kind], 2, c.vars[1], c.vars[2], flag>>
    BY <1>3, <2>2 DEF Encode, Step2
  <2> QED BY <1>3, <2>1, <2>2, <2>3
<1>4. CASE Shape(c) = <<3, 0>>
  <2>1. Len(c.vars) = 3 /\ Len(c.values) = 0
    BY <1>4 DEF Shape
  <2>2. PICK test : test = Encode(c)
    OBVIOUS
  <2>3. test = <<CodeOf[c.kind], 3, c.vars[1], c.vars[2], c.vars[3], flag>>
    BY <1>4, <2>2 DEF Encode, Step3
  <2> QED BY <1>4, <2>1, <2>2, <2>3
<1>5. CASE Shape(c) = <<1, 1>>
  <2>1. Len(c.vars) = 1 /\ Len(c.values) = 1
    BY <1>5 DEF Shape
  <2>2. PICK test : test = Encode(c)
    OBVIOUS
  <2>3. test = <<CodeOf[c.kind], OneIfaceOneValue, c.vars[1], c.values[1], flag>>
    BY <1>5, <2>2 DEF Encode, Step1V
  <2> QED BY <1>5, <2>1, <2>2, <2>3
<1>6. CASE Shape(c) = <<1, 2>>
  <2>1. Len(c.vars) = 1 /\ Len(c.values) = 2
    BY <1>6 DEF Shape
  <2>2. PICK test : test = Encode(c)
    OBVIOUS
  <2>3. test = <<CodeOf[c.kind], OneIfaceTwoValues, c.vars[1], c.values[1], c.values[2], flag>>
    BY <1>6, <2>2 DEF Encode, Step1V2
  <2> QED BY <1>6, <2>1, <2>2, <2>3
<1> QED BY <1>1, <1>2, <1>3, <1>4, <1>5, <1>6, KnownShape DEF Shapes

(***************************************************************************)
(* A list that is cut keeps the entries it has left.                       *)
(***************************************************************************)
LEMMA WithoutLast ==
    ASSUME NEW test, NEW m \in Nat, Len(test) = m + 1
    PROVE  /\ Len(WithoutFlag(test)) = m
           /\ \A k \in 1 .. m : WithoutFlag(test)[k] = test[k]
<1> DEFINE Any == {test[k] : k \in 1 .. m}
<1>1. \A k \in 1 .. m : test[k] \in Any
  OBVIOUS
<1> HIDE DEF Any
<1> QED BY <1>1, SubSeqProperties DEF WithoutFlag

LEMMA UnflaggedReads ==
    ASSUME NEW c \in Constraints, ~ c.negated
    PROVE  Reads(WithoutFlag(Encode(c)), c)
<1>1. /\ Shape(c) \in Shapes
      /\ Shape(c) = <<Len(c.vars), Len(c.values)>>
  BY KnownShape DEF Shape
<1>2. Len(c.vars) \in 0 .. 3 /\ Len(c.values) \in 0 .. 2
  BY <1>1 DEF Shapes
<1>3. PICK p \in 0 .. 3, q \in 0 .. 2 : p = Len(c.vars) /\ q = Len(c.values)
  BY <1>2
<1>4. Len(Encode(c)) = 3 + p + q /\ Reads(Encode(c), c)
  BY <1>3, EncodedReads
<1>5. PICK whole : whole = Encode(c)
  OBVIOUS
<1>6. PICK test : test = WithoutFlag(whole)
  OBVIOUS
<1>7. 2 + p + q \in Nat /\ Len(whole) = (2 + p + q) + 1
  BY <1>4, <1>5
<1>8. Len(test) = 2 + p + q /\ \A k \in 1 .. 2 + p + q : test[k] = whole[k]
  BY <1>6, <1>7, WithoutLast
<1>9. test[1] = CodeOf[c.kind] /\ test[2] = ParamKind(Shape(c))
  <2>1. 1 \in 1 .. 2 + p + q /\ 2 \in 1 .. 2 + p + q
    OBVIOUS
  <2> QED BY <1>4, <1>5, <1>8, <2>1 DEF Reads
<1>10. ASSUME NEW k \in 1 .. p
       PROVE  test[2 + k] = c.vars[k]
  <2>1. 2 + k \in 1 .. 2 + p + q
    OBVIOUS
  <2> QED BY <1>3, <1>4, <1>5, <1>8, <2>1 DEF Reads
<1>11. ASSUME NEW k \in 1 .. q
       PROVE  test[2 + p + k] = c.values[k]
  <2>1. 2 + p + k \in 1 .. 2 + p + q
    OBVIOUS
  <2> QED BY <1>3, <1>4, <1>5, <1>8, <2>1 DEF Reads
<1>12. NegationIdx(test) = 2 + p + q
  <2>1. <<p, q>> \in Shapes /\ test[2] = ParamKind(<<p, q>>)
    BY <1>1, <1>3, <1>9
  <2> QED BY <2>1 DEF Shapes, NegationIdx, ParamKind, OneIfaceOneValue, OneIfaceTwoValues
<1>13. ~ Negated(test)
  BY <1>7, <1>8, <1>12 DEF Negated
<1> QED BY <1>3, <1>5, <1>6, <1>9, <1>10, <1>11, <1>13 DEF Reads

(***************************************************************************)
(* What a test reads is decided as the constraint it was encoded from.     *)
(***************************************************************************)
LEMMA Decoded ==
    ASSUME NEW c \in Constraints, NEW test, Reads(test, c)
    PROVE  /\ Holds(c) \in BOOLEAN
           /\ StepResult(config, test, comb) <=> Holds(c)
<1>1. /\ c.kind \in DOMAIN ShapeOf /\ Shape(c) = ShapeOf[c.kind]
      /\ c.vars \in Seq(0 .. 2)
  BY ConstraintsAssumption
<1>2. /\ DOMAIN c.vars = 1 .. Len(c.vars)
      /\ \A k \in 1 .. Len(c.vars) : test[2 + k] = c.vars[k]
      /\ \A k \in 1 .. Len(c.values) : test[2 + Len(c.vars) + k] = c.values[k]
      /\ test[1] = CodeOf[c.kind] /\ test[2] = ParamKind(Shape(c))
  BY <1>1 DEF Reads
<1>3. DOMAIN ShapeOf = {"Nil", "IsPTP", "IsWPCNic", "HasGNSSDevice", "SameLan2", "SameNic",
        "SameNode", "SameLan3", "ClockClassLessThan", "PTPDomainEquals",
        "ClockClassLessThanInDomain"}
  BY DEF ShapeOf
<1> USE DEF OneIfaceOneValue, OneIfaceTwoValues
<1>4. CASE c.kind = "Nil"
  <2>1. Shape(c) = <<0, 0>>
    BY <1>1, <1>4 DEF ShapeOf
  <2>2. test[2] = 0
    BY <1>2, <2>1 DEF ParamKind
  <2> QED BY <1>4, <2>2 DEF StepResult, Holds
<1>5. CASE c.kind = "IsPTP"
  <2>1. Shape(c) = <<1, 0>>
    BY <1>1, <1>5 DEF ShapeOf
  <2>2. Len(c.vars) = 1 /\ Len(c.values) = 0
    BY <2>1 DEF Shape
  <2>3. test[1] = StepIsPTP /\ test[2] = 1
    BY <1>2, <1>5, <2>1 DEF ParamKind, CodeOf
  <2>4. /\ DOMAIN c.vars = 1 .. 1
        /\ test[3] = c.vars[1]
    BY <1>2, <2>2
  <2>5. PICK p : p = [k \in DOMAIN c.vars |-> comb[c.vars[k]]]
    OBVIOUS
  <2>6. p[1] = comb[c.vars[1]]
    BY <2>4, <2>5
  <2>7. Holds(c) = IsPTP(config, p[1])
    BY <1>5, <2>5 DEF Holds
  <2>8. IsPTP(config, p[1]) \in BOOLEAN
    BY DEF IsPTP
  <2>9. StepResult(config, test, comb) = IsPTP(config, p[1])
    BY <2>3, <2>4, <2>6 DEF StepResult, StepIsPTP, AlgoCode1,
                            StepIsWPCNic, StepHasGNSSDevice
  <2> QED BY <2>7, <2>8, <2>9
<1>6. CASE c.kind = "IsWPCNic"
  <2>1. Shape(c) = <<1, 0>>
    BY <1>1, <1>6 DEF ShapeOf
  <2>2. Len(c.vars) = 1 /\ Len(c.values) = 0
    BY <2>1 DEF Shape
  <2>3. test[1] = StepIsWPCNic /\ test[2] = 1
    BY <1>2, <1>6, <2>1 DEF ParamKind, CodeOf
  <2>4. /\ DOMAIN c.vars = 1 .. 1
        /\ test[3] = c.vars[1]
    BY <1>2, <2>2
  <2>5. PICK p : p = [k \in DOMAIN c.vars |-> comb[c.vars[k]]]
    OBVIOUS
  <2>6. p[1] = comb[c.vars[1]]
    BY <2>4, <2>5
  <2>7. Holds(c) = IsWPCNicWrapper(config, p[1])
    BY <1>6, <2>5 DEF Holds
  <2> QED BY <2>3, <2>4, <2>6, <2>7
         DEF StepResult, StepIsWPCNic, AlgoCode1, StepIsPTP, StepHasGNSSDevice, IsWPCNicWrapper
<1>7. CASE c.kind = "HasGNSSDevice"
  <2>1. Shape(c) = <<1, 0>>
    BY <1>1, <1>7 DEF ShapeOf
  <2>2. Len(c.vars) = 1 /\ Len(c.values) = 0
    BY <2>1 DEF Shape
  <2>3. test[1] = StepHasGNSSDevice /\ test[2] = 1
    BY <1>2, <1>7, <2>1 DEF ParamKind, CodeOf
  <2>4. /\ DOMAIN c.vars = 1 .. 1
        /\ test[3] = c.vars[1]
    BY <1>2, <2>2
  <2>5. PICK p : p = [k \in DOMAIN c.vars |-> comb[c.vars[k]]]
    OBVIOUS
  <2>6. p[1] = comb[c.vars[1]]
    BY <2>4, <2>5
  <2>7. Holds(c) = HasGNSSDeviceWrapper(config, p[1])
    BY <1>7, <2>5 DEF Holds
  <2> QED BY <2>3, <2>4, <2>6, <2>7
         DEF StepResult, StepHasGNSSDevice, AlgoCode1, StepIsPTP, StepIsWPCNic, HasGNSSDeviceWrapper
<1>8. CASE c.kind = "SameLan2"
  <2>1. Shape(c) = <<2, 0>>
    BY <1>1, <1>8 DEF ShapeOf
  <2>2. Len(c.vars) = 2 /\ Len(c.values) = 0
    BY <2>1 DEF Shape
  <2>3. test[1] = StepSameLan2 /\ test[2] = 2
    BY <1>2, <1>8, <2>1 DEF ParamKind, CodeOf
  <2>4. /\ DOMAIN c.vars = 1 .. 2
        /\ test[3] = c.vars[1]
        /\ test[4] = c.vars[2]
    BY <1>2, <2>2
  <2>5. PICK p : p = [k \in DOMAIN c.vars |-> comb[c.vars[k]]]
    OBVIOUS
  <2>6. p[1] = comb[c.vars[1]] /\ p[2] = comb[c.vars[2]]
    BY <2>4, <2>5
  <2>7. Holds(c) = SameLan2(config, p[1], p[2])
    BY <1>8, <2>5 DEF Holds
  <2> QED BY <2>3, <2>4, <2>6, <2>7
         DEF StepResult, StepSameLan2, AlgoCode2, StepSameNic, StepSameNode, SameLan2
<1>9. CASE c.kind = "SameNic"
  <2>1. Shape(c) = <<2, 0>>
    BY <1>1, <1>9 DEF ShapeOf
  <2>2. Len(c.vars) = 2 /\ Len(c.values) = 0
    BY <2>1 DEF Shape
  <2>3. test[1] = StepSameNic /\ test[2] = 2
    BY <1>2, <1>9, <2>1 DEF ParamKind, CodeOf
  <2>4. /\ DOMAIN c.vars = 1 .. 2
        /\ test[3] = c.vars[1]
        /\ test[4] = c.vars[2]
    BY <1>2, <2>2
  <2>5. PICK p : p = [k \in DOMAIN c.vars |-> comb[c.vars[k]]]
    OBVIOUS
  <2>6. p[1] = comb[c.vars[1]] /\ p[2] = comb[c.vars[2]]
    BY <2>4, <2>5
  <2>7. Holds(c) = SameNic(If(config, p[1]), If(config, p[2]))
    BY <1>9, <2>5 DEF Holds
  <2> QED BY <2>3, <2>4, <2>6, <2>7
         DEF StepResult, StepSameNic, AlgoCode2, StepSameLan2, StepSameNode, SameNic
<1>10. CASE c.kind = "SameNode"
  <2>1. Shape(c) = <<2, 0>>
    BY <1>1, <1>10 DEF ShapeOf
  <2>2. Len(c.vars) = 2 /\ Len(c.values) = 0
    BY <2>1 DEF Shape
  <2>3. test[1] = StepSameNode /\ test[2] = 2
    BY <1>2, <1>10, <2>1 DEF ParamKind, CodeOf
  <2>4. /\ DOMAIN c.vars = 1 .. 2
        /\ test[3] = c.vars[1]
        /\ test[4] = c.vars[2]
    BY <1>2, <2>2
  <2>5. PICK p : p = [k \in DOMAIN c.vars |-> comb[c.vars[k]]]
    OBVIOUS
  <2>6. p[1] = comb[c.vars[1]] /\ p[2] = comb[c.vars[2]]
    BY <2>4, <2>5
  <2>7. Holds(c) = SameNode(If(config, p[1]), If(config, p[2]))
    BY <1>10, <2>5 DEF Holds
  <2>8. SameNode(If(config, p[1]), If(config, p[2])) \in BOOLEAN
    BY DEF SameNode
  <2>9. StepResult(config, test, comb) = SameNode(If(config, p[1]), If(config, p[2]))
    BY <2>3, <2>4, <2>6 DEF StepResult, StepSameNode, AlgoCode2,
                            StepSameLan2, StepSameNic
  <2> QED BY <2>7, <2>8, <2>9
<1>11. CASE c.kind = "SameLan3"
  <2>1. Shape(c) = <<3, 0>>
    BY <1>1, <1>11 DEF ShapeOf
  <2>2. Len(c.vars) = 3 /\ Len(c.values) = 0
    BY <2>1 DEF Shape
  <2>3. test[1] = StepSameLan3 /\ test[2] = 3
    BY <1>2, <1>11, <2>1 DEF ParamKind, CodeOf
  <2>4. /\ DOMAIN c.vars = 1 .. 3
        /\ test[3] = c.vars[1]
        /\ test[4] = c.vars[2]
        /\ test[5] = c.vars[3]
    BY <1>2, <2>2
  <2>5. PICK p : p = [k \in DOMAIN c.vars |-> comb[c.vars[k]]]
    OBVIOUS
  <2>6. p[1] = comb[c.vars[1]] /\ p[2] = comb[c.vars[2]] /\ p[3] = comb[c.vars[3]]
    BY <2>4, <2>5
  <2>7. Holds(c) = SameLan3(config, p[1], p[2], p[3])
    BY <1>11, <2>5 DEF Holds
  <2> QED BY <2>3, <2>4, <2>6, <2>7 DEF StepResult, StepSameLan3, SameLan3
<1>12. CASE c.kind = "ClockClassLessThan"
  <2>1. Shape(c) = <<1, 1>>
    BY <1>1, <1>12 DEF ShapeOf
  <2>2. Len(c.vars) = 1 /\ Len(c.values) = 1
    BY <2>1 DEF Shape
  <2>3. test[1] = StepClockClassLessThan /\ test[2] = OneIfaceOneValue
    BY <1>2, <1>12, <2>1 DEF ParamKind, CodeOf
  <2>4. /\ DOMAIN c.vars = 1 .. 1
        /\ test[3] = c.vars[1]
        /\ test[4] = c.values[1]
    BY <1>2, <2>2
  <2>5. PICK p : p = [k \in DOMAIN c.vars |-> comb[c.vars[k]]]
    OBVIOUS
  <2>6. p[1] = comb[c.vars[1]]
    BY <2>4, <2>5
  <2>7. Holds(c) = ClockClassLessThan(If(config, p[1]), c.values[1])
    BY <1>12, <2>5 DEF Holds
  <2> QED BY <2>3, <2>4, <2>6, <2>7
         DEF StepResult, StepClockClassLessThan, AlgoCode1V, StepPTPDomainEquals, ClockClassLessThan
<1>13. CASE c.kind = "PTPDomainEquals"
  <2>1. Shape(c) = <<1, 1>>
    BY <1>1, <1>13 DEF ShapeOf
  <2>2. Len(c.vars) = 1 /\ Len(c.values) = 1
    BY <2>1 DEF Shape
  <2>3. test[1] = StepPTPDomainEquals /\ test[2] = OneIfaceOneValue
    BY <1>2, <1>13, <2>1 DEF ParamKind, CodeOf
  <2>4. /\ DOMAIN c.vars = 1 .. 1
        /\ test[3] = c.vars[1]
        /\ test[4] = c.values[1]
    BY <1>2, <2>2
  <2>5. PICK p : p = [k \in DOMAIN c.vars |-> comb[c.vars[k]]]
    OBVIOUS
  <2>6. p[1] = comb[c.vars[1]]
    BY <2>4, <2>5
  <2>7. Holds(c) = PTPDomainEquals(If(config, p[1]), c.values[1])
    BY <1>13, <2>5 DEF Holds
  <2> QED BY <2>3, <2>4, <2>6, <2>7
         DEF StepResult, StepPTPDomainEquals, AlgoCode1V, StepClockClassLessThan, PTPDomainEquals
<1>14. CASE c.kind = "ClockClassLessThanInDomain"
  <2>1. Shape(c) = <<1, 2>>
    BY <1>1, <1>14 DEF ShapeOf
  <2>2. Len(c.vars) = 1 /\ Len(c.values) = 2
    BY <2>1 DEF Shape
  <2>3. test[1] = StepClockClassLessThanInDomain /\ test[2] = OneIfaceTwoValues
    BY <1>2, <1>14, <2>1 DEF ParamKind, CodeOf
  <2>4. /\ DOMAIN c.vars = 1 .. 1
        /\ test[3] = c.vars[1]
        /\ test[4] = c.values[1]
        /\ test[5] = c.values[2]
    BY <1>2, <2>2
  <2>5. PICK p : p = [k \in DOMAIN c.vars |-> comb[c.vars[k]]]
    OBVIOUS
  <2>6. p[1] = comb[c.vars[1]]
    BY <2>4, <2>5
  <2>7. Holds(c) = ClockClassLessThanInDomain(If(config, p[1]), c.values[1], c.values[2])
    BY <1>14, <2>5 DEF Holds
  <2> QED BY <2>3, <2>4, <2>6, <2>7
         DEF StepResult, StepClockClassLessThanInDomain, ClockClassLessThanInDomain
<1> QED BY <1>1, <1>3, <1>4, <1>5, <1>6, <1>7, <1>8, <1>9, <1>10, <1>11, <1>12, <1>13, <1>14
(***************************************************************************)
(* Every constraint is decided as it was stated, whichever constructor     *)
(* encoded it and whether its flag was left out or not.                    *)
(***************************************************************************)
LEMMA Verdict ==
    ASSUME NEW c \in Constraints, NEW test, Reads(test, c)
    PROVE  applyStep(config, {test}, comb) = (Holds(c) # c.negated)
<1>1. c.negated \in BOOLEAN
  BY ConstraintsAssumption
<1>2. Holds(c) \in BOOLEAN /\ (StepResult(config, test, comb) <=> Holds(c))
  BY Decoded
<1>3. Negated(test) <=> c.negated
  BY DEF Reads
<1>4. applyStep(config, {test}, comb) <=> TestHolds(config, test, comb)
  BY DEF applyStep
<1>5. CASE c.negated
  <2>1. TestHolds(config, test, comb) <=> ~ Holds(c)
    BY <1>2, <1>3, <1>5 DEF TestHolds
  <2>2. (Holds(c) # c.negated) <=> ~ Holds(c)
    BY <1>1, <1>2, <1>5
  <2> QED BY <1>4, <2>1, <2>2 DEF applyStep
<1>6. CASE ~ c.negated
  <2>1. TestHolds(config, test, comb) <=> Holds(c)
    BY <1>2, <1>3, <1>6 DEF TestHolds
  <2>2. (Holds(c) # c.negated) <=> Holds(c)
    BY <1>1, <1>2, <1>6
  <2> QED BY <1>4, <2>1, <2>2 DEF applyStep
<1> QED BY <1>5, <1>6

(* EncodingRoundTrips for every configuration, constraint and assignment:  *)
(* what Step0 .. Step1V2 write, applyStep reads back.                      *)
THEOREM EncodingRoundTripsCorrect == Spec => []EncodingRoundTrips
<1>1. Init => EncodingRoundTrips
  <2> SUFFICES ASSUME Init
               PROVE  EncodingRoundTrips
    OBVIOUS
  <2>1. constraint.kind = "Nil" /\ constraint.negated = FALSE /\ verdict = TRUE
    BY DEF Init
  <2>2. Holds(constraint) = TRUE
    BY <2>1 DEF Holds
  <2> QED BY <2>1, <2>2 DEF EncodingRoundTrips
<1>2. EncodingRoundTrips /\ [Next]_vars => EncodingRoundTrips'
  <2> SUFFICES ASSUME EncodingRoundTrips, [Next]_vars
               PROVE  EncodingRoundTrips'
    OBVIOUS
  <2>1. ASSUME NEW c \in Constraints, Evaluate(c)
        PROVE  EncodingRoundTrips'
    <3>1. /\ Reads(Encode(c), c)
          /\ ~ c.negated => Reads(WithoutFlag(Encode(c)), c)
      BY EncodedReads, UnflaggedReads
    <3>2. verdict' = (Holds(c) # c.negated)
      BY <2>1, <3>1, Verdict DEF Evaluate
    <3>3. constraint' = c /\ Holds(constraint)' = Holds(c)
      BY <2>1 DEF Evaluate, Holds
    <3> QED BY <3>2, <3>3 DEF EncodingRoundTrips
  <2>2. CASE UNCHANGED vars
    BY <2>2 DEF vars, EncodingRoundTrips, Holds
  <2> QED BY <2>1, <2>2 DEF Next
<1> QED BY <1>1, <1>2, PTL DEF Spec

(* SiblingsAgree for every configuration: the ports of one clock or card   *)
(* answer IsWPCNicWrapper and HasGNSSDeviceWrapper alike.                  *)
THEOREM SiblingsAgreeCorrect == Spec => []SiblingsAgree
<1>1. SiblingsAgree
  <2> SUFFICES ASSUME NEW i \in Interfaces, NEW j \in Interfaces,
                      If(config, i).node = If(config, j).node
               PROVE  /\ If(config, i).phc = If(config, j).phc /\ If(config, i).wpc = If(config, j).wpc =>
                            IsWPCNicWrapper(config, i) = IsWPCNicWrapper(config, j)
                      /\ SameNic(If(config, i), If(config, j)) /\ If(config, i).phc >= 0 /\ If(config, j).phc >= 0 =>
                            HasGNSSDeviceWrapper(config, i) = HasGNSSDeviceWrapper(config, j)
    BY DEF SiblingsAgree
  <2>1. ASSUME If(config, i).phc = If(config, j).phc, If(config, i).wpc = If(config, j).wpc
        PROVE  IsWPCNicWrapper(config, i) = IsWPCNicWrapper(config, j)
    <3>1. PhcSiblings(config, i) = PhcSiblings(config, j)
      BY <2>1 DEF PhcSiblings
    <3> QED BY <2>1, <3>1 DEF IsWPCNicWrapper
  <2>2. ASSUME SameNic(If(config, i), If(config, j)),
               If(config, i).phc >= 0, If(config, j).phc >= 0
        PROVE  HasGNSSDeviceWrapper(config, i) = HasGNSSDeviceWrapper(config, j)
    <3>1. \A peer : SameNic(peer, If(config, i)) <=> SameNic(peer, If(config, j))
      BY <2>2 DEF SameNic
    <3> QED BY <2>2, <3>1 DEF HasGNSSDeviceWrapper
  <2> QED BY <2>1, <2>2
<1> QED BY <1>1, PTL

(* LanStepsAgree for every configuration: on disjoint LANs the test of     *)
(* three ports is the two tests of two, but for the ports of one node.     *)
THEOREM LanStepsAgreeCorrect == Spec => []LanStepsAgree
<1>1. LanStepsAgree
  <2> SUFFICES ASSUME \A lan, other \in config.lans : lan # other => lan \cap other = {},
                      NEW i \in Interfaces, NEW j \in Interfaces, NEW k \in Interfaces
               PROVE  /\ SameLan3(config, i, j, k) =>
                            /\ SameLan2(config, i, j)
                            /\ SameLan2(config, i, k)
                            /\ SameLan2(config, j, k)
                      /\ SameLan2(config, i, j) /\ SameLan2(config, i, k) =>
                            \/ SameLan3(config, i, j, k)
                            \/ If(config, i).node \in {If(config, j).node, If(config, k).node}
    BY DEF LanStepsAgree
  <2>1. ASSUME SameLan3(config, i, j, k)
        PROVE  SameLan2(config, i, j) /\ SameLan2(config, i, k) /\ SameLan2(config, j, k)
    <3>1. PICK lan \in config.lans : {i, j, k} \subseteq lan
      BY <2>1 DEF SameLan3
    <3> QED BY <3>1 DEF SameLan2
  <2>2. ASSUME SameLan2(config, i, j), SameLan2(config, i, k),
               If(config, i).node \notin {If(config, j).node, If(config, k).node}
        PROVE  SameLan3(config, i, j, k)
    <3>1. PICK lan \in config.lans : i \in lan /\ j \in lan
      BY <2>2 DEF SameLan2
    <3>2. PICK other \in config.lans : i \in other /\ k \in other
      BY <2>2 DEF SameLan2
    <3>3. lan = other
      BY <3>1, <3>2
    <3>4. {i, j, k} \subseteq lan
      BY <3>1, <3>2, <3>3
    <3> QED BY <2>2, <3>4 DEF SameLan3, SameNode
  <2> QED BY <2>1, <2>2
<1> QED BY <1>1, PTL

Configured == config \in Configs

(* AnnounceStepsAgree for every configuration: the combined announce test  *)
(* is about one grandmaster, and forgetting its domain gives the single    *)
(* clock class test.                                                       *)
THEOREM AnnounceStepsAgreeCorrect == Spec => []AnnounceStepsAgree
<1>1. Configured => AnnounceStepsAgree
  <2> SUFFICES ASSUME Configured,
                      NEW if \in {If(config, i) : i \in Interfaces},
                      NEW a \in if.announces, NEW b \in if.announces
               PROVE  LET threshold == b[2] + 1
                          alone(c) == [if EXCEPT !.announces = {c}]
                      IN  /\ ClockClassLessThanInDomain(if, threshold, a[1]) <=>
                                \E c \in if.announces : ClockClassLessThan(alone(c), threshold)
                                                         /\ PTPDomainEquals(alone(c), a[1])
                          /\ ClockClassLessThan(if, threshold) <=>
                                \E c \in if.announces :
                                    ClockClassLessThanInDomain(if, threshold, c[1])
    BY Zenon DEF AnnounceStepsAgree
  <2> DEFINE threshold == b[2] + 1
  <2>0. PICK i \in Interfaces : if = If(config, i)
    OBVIOUS
  <2>1. "announces" \in DOMAIN if
    <3>1. i + 1 \in 1 .. Len(config.ifs)
      BY ConfigsAssumption DEF Interfaces, Configured
    <3> QED BY <2>0, <3>1, ConfigsAssumption DEF If, Configured
  <2>2. \A c : [if EXCEPT !.announces = {c}].announces = {c}
    BY <2>1
  <2>3. \A c : /\ ClockClassLessThan([if EXCEPT !.announces = {c}], threshold) <=> c[2] < threshold
               /\ PTPDomainEquals([if EXCEPT !.announces = {c}], a[1]) <=> c[1] = a[1]
    BY <2>2 DEF ClockClassLessThan, PTPDomainEquals
  <2>4. ClockClassLessThanInDomain(if, threshold, a[1]) <=>
            \E c \in if.announces :
                /\ ClockClassLessThan([if EXCEPT !.announces = {c}], threshold)
                /\ PTPDomainEquals([if EXCEPT !.announces = {c}], a[1])
    BY <2>3 DEF ClockClassLessThanInDomain
  <2>5. ClockClassLessThan(if, threshold) <=>
            \E c \in if.announces : ClockClassLessThanInDomain(if, threshold, c[1])
    BY DEF ClockClassLessThan, ClockClassLessThanInDomain
  <2> QED BY <2>4, <2>5
<1>2. Spec => []Configured
  <2>1. Init => Configured
    BY DEF Init, Configured
  <2>2. Configured /\ [Next]_vars => Configured'
    BY DEF Next, Evaluate, vars, Configured
  <2> QED BY <2>1, <2>2, PTL DEF Spec
<1> QED BY <1>1, <1>2, PTL
=============================================================================
