----------------------------- MODULE McpPlan_proofs -----------------------------
(* What an execution plan consists of, for every mode, filter and set of flags.  *)
EXTENDS McpPlan, TLAPS

Elements(s) == {s[i] : i \in 1..Len(s)}
Increasing(s) == \A i, j \in 1..Len(s) : i < j => s[i].step < s[j].step

PlanItems == [step : Nat, tool : Tools, enabled : BOOLEAN]

Kept(s, includeDisabled) == includeDisabled \/ s.enabled \/ s.tool \notin CommandTools

\* The first steps of the flow, without those that are left out.
Filtered(s, n, mode, includeDisabled, supports) ==
  /\ s \in Seq(PlanItems) /\ Increasing(s)
  /\ Elements(s) = {x \in {PlanStep(mode, supports, i) : i \in 1..n} : Kept(x, includeDisabled)}

LEMMA FlowShape ==
  ASSUME NEW mode \in Modes
  PROVE  LET flow == BaselineFlow(mode)
             n == Len(flow)
         IN  /\ n \in {10, 12} /\ \A i \in 1..n : flow[i] \in Tools
             /\ \A i \in 1..(n - 4) : flow[i] \notin CommandTools
             /\ flow[n - 3] = Nudge /\ flow[n - 2] = Slew /\ flow[n - 1] = SyncTool
             /\ flow[n] = Tracking
<1>1. CASE mode = "sync"
  BY <1>1 DEF BaselineFlow, Tools, ReadTools, CommandTools, Nudge, Slew, SyncTool, Tracking
<1>2. CASE mode = "async"
  BY <1>2 DEF BaselineFlow, Tools, ReadTools, CommandTools, Nudge, Slew, SyncTool, Tracking
<1> QED
  BY <1>1, <1>2 DEF Modes

LEMMA AppendStep ==
  ASSUME NEW s \in Seq(PlanItems), NEW x \in PlanItems, Increasing(s),
         \A i \in 1..Len(s) : s[i].step < x.step
  PROVE  /\ Append(s, x) \in Seq(PlanItems) /\ Increasing(Append(s, x))
         /\ Elements(Append(s, x)) = Elements(s) \cup {x}
<1> DEFINE t == Append(s, x)
<1>1. /\ t \in Seq(PlanItems) /\ Len(s) \in Nat /\ Len(t) = Len(s) + 1
      /\ \A i \in 1..Len(s) : t[i] = s[i]
      /\ t[Len(s) + 1] = x
  OBVIOUS
<1> HIDE DEF t
<1>2. Increasing(t)
  BY <1>1 DEF Increasing
<1>3. 1..Len(t) = (1..Len(s)) \cup {Len(s) + 1}
  BY <1>1
<1>4. Elements(t) = Elements(s) \cup {x}
  <2>1. ASSUME NEW i \in 1..Len(t) PROVE t[i] \in Elements(s) \cup {x}
    BY <1>1, <1>3 DEF Elements
  <2>2. ASSUME NEW i \in 1..Len(s) PROVE s[i] \in Elements(t)
    BY <1>1, <1>3 DEF Elements
  <2>3. x \in Elements(t)
    BY <1>1, <1>3 DEF Elements
  <2> QED
    BY <2>1, <2>2, <2>3 DEF Elements
<1> QED
  BY <1>1, <1>2, <1>4 DEF t

\* One more step of the flow.
LEMMA OneMoreStep ==
  ASSUME NEW mode \in Modes, NEW includeDisabled \in BOOLEAN, NEW supports,
         NEW n \in 1..Len(BaselineFlow(mode)), NEW s,
         Filtered(s, n - 1, mode, includeDisabled, supports)
  PROVE  Filtered(WithStep(s, PlanStep(mode, supports, n), includeDisabled),
                  n, mode, includeDisabled, supports)
<1> DEFINE P(i) == PlanStep(mode, supports, i)
<1>1. n \in Nat /\ 1..n = (1..(n - 1)) \cup {n}
  BY FlowShape
<1>2. \A i \in 1..n : P(i) \in PlanItems /\ P(i).step = i
  <2>1. \A i \in 1..n : BaselineFlow(mode)[i] \in Tools /\ i \in Nat
    BY FlowShape
  <2> QED
    BY <2>1 DEF PlanStep, PlanItems
<1>3. s \in Seq(PlanItems) /\ Increasing(s)
      /\ Elements(s) = {x \in {P(i) : i \in 1..(n - 1)} : Kept(x, includeDisabled)}
  BY DEF Filtered
<1>4. \A i \in 1..Len(s) : s[i].step < n
  <2>1. \A x \in Elements(s) : x.step \in 1..(n - 1)
    BY <1>1, <1>2, <1>3
  <2> QED
    BY <1>1, <2>1 DEF Elements
<1> HIDE DEF P
<1>5. CASE Kept(P(n), includeDisabled)
  <2>1. WithStep(s, P(n), includeDisabled) = Append(s, P(n))
    BY <1>5 DEF WithStep, Kept
  <2>2. P(n) \in PlanItems /\ P(n).step = n
    BY <1>1, <1>2
  <2>3. /\ Append(s, P(n)) \in Seq(PlanItems) /\ Increasing(Append(s, P(n)))
        /\ Elements(Append(s, P(n))) = Elements(s) \cup {P(n)}
    BY <1>3, <1>4, <2>2, AppendStep
  <2>4. Elements(s) \cup {P(n)} = {x \in {P(i) : i \in 1..n} : Kept(x, includeDisabled)}
    BY <1>1, <1>3, <1>5
  <2> QED
    BY <2>1, <2>3, <2>4 DEF Filtered, P
<1>6. CASE ~Kept(P(n), includeDisabled)
  <2>1. WithStep(s, P(n), includeDisabled) = s
    BY <1>6 DEF WithStep, Kept
  <2>2. Elements(s) = {x \in {P(i) : i \in 1..n} : Kept(x, includeDisabled)}
    BY <1>1, <1>3, <1>6
  <2> QED
    BY <1>3, <2>1, <2>2 DEF Filtered, P
<1> QED
  BY <1>5, <1>6

\* A plan is the flow, in its order, without the steps that are left out.
LEMMA PlanFiltered ==
  ASSUME NEW mode \in Modes, NEW includeDisabled \in BOOLEAN, NEW supports
  PROVE  Filtered(ExecutionPlan(mode, includeDisabled, supports),
                  Len(BaselineFlow(mode)), mode, includeDisabled, supports)
<1> DEFINE n == Len(BaselineFlow(mode))
           P(i) == PlanStep(mode, supports, i)
           F(s, k) == Filtered(s, k, mode, includeDisabled, supports)
           reads == [i \in 1..(n - 4) |-> P(i)]
           s1 == WithStep(reads, P(n - 3), includeDisabled)
           s2 == WithStep(s1, P(n - 2), includeDisabled)
           s3 == WithStep(s2, P(n - 1), includeDisabled)
           s4 == WithStep(s3, P(n), includeDisabled)
<1>1. n \in {10, 12}
  BY FlowShape
<1>2. \A i \in 1..(n - 4) : P(i) \in PlanItems /\ P(i).step = i /\ P(i).tool \notin CommandTools
  <2>1. \A i \in 1..(n - 4) :
          /\ BaselineFlow(mode)[i] \in Tools /\ i \in Nat
          /\ BaselineFlow(mode)[i] \notin CommandTools
    BY FlowShape
  <2> QED
    BY <2>1 DEF PlanStep, PlanItems
<1>3. F(reads, n - 4)
  <2> HIDE DEF n, P
  <2>1. reads \in Seq(PlanItems) /\ Len(reads) = n - 4
    BY <1>1, <1>2
  <2>2. Increasing(reads)
    BY <1>1, <1>2, <2>1 DEF Increasing
  <2>3. Elements(reads) = {P(i) : i \in 1..(n - 4)}
    BY <2>1 DEF Elements
  <2>4. \A x \in {P(i) : i \in 1..(n - 4)} : Kept(x, includeDisabled)
    BY <1>2 DEF Kept
  <2>5. {x \in {P(i) : i \in 1..(n - 4)} : Kept(x, includeDisabled)} = {P(i) : i \in 1..(n - 4)}
    BY <2>4
  <2> HIDE DEF reads
  <2>6. F(reads, n - 4)
    BY <2>1, <2>2, <2>3, <2>5 DEF Filtered, P
  <2> QED
    BY <2>6 DEF reads, P, n
<1>4. /\ n - 3 \in 1..n /\ n - 2 \in 1..n /\ n - 1 \in 1..n /\ n \in 1..n
      /\ (n - 3) - 1 = n - 4 /\ (n - 2) - 1 = n - 3 /\ (n - 1) - 1 = n - 2
  <2> HIDE DEF n
  <2> QED
    BY <1>1
<1> HIDE DEF reads
<1>5. F(s1, n - 3)
  BY <1>3, <1>4, OneMoreStep
<1> HIDE DEF s1
<1>6. F(s2, n - 2)
  BY <1>4, <1>5, OneMoreStep
<1> HIDE DEF s2
<1>7. F(s3, n - 1)
  BY <1>4, <1>6, OneMoreStep
<1> HIDE DEF s3
<1>8. F(s4, n)
  BY <1>4, <1>7, OneMoreStep
<1>9. ExecutionPlan(mode, includeDisabled, supports) = s4
  BY DEF ExecutionPlan, s3, s2, s1, reads
<1> QED
  BY <1>8, <1>9

\* The steps of a plan are in the order of their numbers, enabled only with the flags
\* their tools require, and none whose tool has its flags is missing.
THEOREM PlansFailClosed ==
  ASSUME NEW mode \in Modes, NEW includeDisabled \in BOOLEAN, NEW supports
  PROVE  LET plan == ExecutionPlan(mode, includeDisabled, supports)
         IN  /\ \A i \in 1..Len(plan) :
                  plan[i].enabled => RequiredCapability(plan[i].tool) \subseteq supports
             /\ \A i, j \in 1..Len(plan) : i < j => plan[i].step < plan[j].step
             /\ \A tool \in CommandTools :
                  RequiredCapability(tool) \subseteq supports =>
                    \E i \in 1..Len(plan) : plan[i].tool = tool
<1> DEFINE plan == ExecutionPlan(mode, includeDisabled, supports)
           n == Len(BaselineFlow(mode))
           P(i) == PlanStep(mode, supports, i)
<1>1. /\ Increasing(plan)
      /\ Elements(plan) = {x \in {P(i) : i \in 1..n} : Kept(x, includeDisabled)}
  BY PlanFiltered DEF Filtered
<1> HIDE DEF plan
<1>2. ASSUME NEW x \in Elements(plan), x.enabled
      PROVE  RequiredCapability(x.tool) \subseteq supports
  <2>1. PICK i \in 1..n : x = P(i)
    BY <1>1
  <2>2. x.enabled <=> x.tool \in EnabledTools(supports)
    BY <2>1 DEF PlanStep
  <2> QED
    BY <1>2, <2>2 DEF EnabledTools
<1>3. ASSUME NEW tool \in CommandTools, RequiredCapability(tool) \subseteq supports
      PROVE  \E x \in Elements(plan) : x.tool = tool
  <2>1. PICK i \in 1..n : BaselineFlow(mode)[i] = tool
    <3>1. n - 3 \in 1..n /\ n - 2 \in 1..n /\ n - 1 \in 1..n /\ n \in 1..n
      <4>1. n \in {10, 12}
        BY FlowShape
      <4> HIDE DEF n
      <4> QED
        BY <4>1
    <3> QED
      BY <3>1, FlowShape DEF CommandTools
  <2>2. P(i).tool = tool /\ P(i).enabled
    BY <1>3, <2>1 DEF PlanStep, EnabledTools, Tools
  <2>3. P(i) \in Elements(plan)
    BY <1>1, <2>2 DEF Kept
  <2> QED
    BY <2>2, <2>3
<1> QED
  BY <1>1, <1>2, <1>3 DEF Increasing, Elements, plan

=============================================================================
