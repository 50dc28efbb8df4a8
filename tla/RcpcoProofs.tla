---------------------------- MODULE RcpcoProofs ----------------------------
(***************************************************************************)
(* Theorems about Rcpco, for every number of modules, tokens and retries   *)
(* and every list of requests.                                             *)
(***************************************************************************)
EXTENDS Rcpco, FiniteSetTheorems, WellFoundedInduction, TLAPS

PoolType ==
  /\ phase \in Phase
  /\ next \in 1 .. NMod + 1
  /\ tokens \in Nat
  /\ job \in [Pool -> [Mod -> Working \cup {"none", "ended"}]]
  /\ external \in [Mod -> {"none", "stale", "branch"}]

\* The modules before `next` are those the current loop has started, and a
\* pool is started after the pool before it has come to an end.
PoolOrder ==
  /\ phase \in {"gitlab", "exited"} =>
       next = 1 /\ \A p \in Pool, m \in Mod : job[p][m] = "none"
  /\ phase = "clone" =>
       \A m \in Mod : /\ job["checkout"][m] = "none"
                      /\ m < next <=> job["clone"][m] # "none"
  /\ phase \in {"checkout", "tests", "done"} =>
       \A m \in Mod : job["clone"][m] = "ended"
  /\ phase = "checkout" =>
       \A m \in Mod : m < next <=> job["checkout"][m] # "none"

\* What the first pool has written, module by module.
Written ==
  /\ phase \notin {"gitlab", "exited"} =>
       \A m \in Mod : external[m] # "stale"
  /\ phase \notin {"gitlab", "exited"} =>
       \A m \in Mod : job["clone"][m] \in {"token", "ended"} => external[m] = "branch"
  /\ \A m \in Mod : job["clone"][m] \in {"none", "append", "token", "ended"}

PoolInv == PoolType /\ PoolOrder /\ Written /\ TokenBalance

LEMMA Numbers == NMod \in Nat /\ Thread \in Nat
  BY RcpcoAssumption

LEMMA HoldingFinite == IsFiniteSet(Holding) /\ Cardinality(Holding) \in Nat
<1>1. IsFiniteSet(Mod)
  BY Numbers, FS_Interval DEF Mod
<1>2. IsFiniteSet(Pool)
  <2>1. IsFiniteSet({} \cup {"clone"})
    BY FS_EmptySet, FS_AddElement
  <2>2. IsFiniteSet(({} \cup {"clone"}) \cup {"checkout"})
    BY <2>1, FS_AddElement
  <2>3. Pool = ({} \cup {"clone"}) \cup {"checkout"}
    BY DEF Pool
  <2>4. QED BY <2>2, <2>3
<1>3. IsFiniteSet(Pool \X Mod)
  BY <1>1, <1>2, FS_Product
<1>4. Holding \subseteq Pool \X Mod
  BY DEF Holding
<1>5. QED BY <1>3, <1>4, FS_Subset, FS_CardinalityType

LEMMA PoolInit == Init => PoolInv
<1> SUFFICES ASSUME Init PROVE PoolInv
  OBVIOUS
<1>1. PoolType /\ PoolOrder /\ Written
  BY RcpcoAssumption DEF Init, PoolType, PoolOrder, Written, Phase, Pool, Working, Mod
<1>2. Holding = {}
  BY DEF Init, Holding, Working, Pool
<1>3. Cardinality(Holding) = 0
  BY <1>2, FS_EmptySet
<1>4. TokenBalance
  BY <1>3, RcpcoAssumption DEF TokenBalance, Init
<1>5. QED BY <1>1, <1>4 DEF PoolInv

-----------------------------------------------------------------------------
(* One job moves at a time; a token moves with it. *)

\* A step of a job that keeps its token.
LEMMA Moves ==
  ASSUME PoolType, TokenBalance, NEW p \in Pool, NEW m \in Mod, NEW w \in Working,
         job[p][m] \in Working, job' = [job EXCEPT ![p][m] = w], tokens' = tokens
  PROVE  TokenBalance'
<1>1. Holding' = Holding
  BY DEF Holding, PoolType
<1>2. QED BY <1>1 DEF TokenBalance

LEMMA Starts ==
  ASSUME PoolType, TokenBalance, NEW p \in Pool, NEW m \in Mod, NEW w \in Working,
         job[p][m] \notin Working, job' = [job EXCEPT ![p][m] = w],
         tokens > 0, tokens' = tokens - 1
  PROVE  TokenBalance'
<1>1. Holding' = Holding \cup {<<p, m>>} /\ <<p, m>> \notin Holding
  BY DEF Holding, PoolType
<1>2. Cardinality(Holding') = Cardinality(Holding) + 1
  BY <1>1, HoldingFinite, FS_AddElement
<1>3. QED BY <1>2, HoldingFinite DEF TokenBalance, PoolType

LEMMA Returns ==
  ASSUME PoolType, TokenBalance, NEW p \in Pool, NEW m \in Mod,
         job[p][m] \in Working, job' = [job EXCEPT ![p][m] = "ended"],
         tokens' = tokens + 1
  PROVE  TokenBalance'
<1>1. Holding' = Holding \ {<<p, m>>} /\ <<p, m>> \in Holding
  <2>1. <<p, m>> \in Holding
    BY DEF Holding
  <2>2. job'[p][m] \notin Working
    BY DEF PoolType, Working
  <2>3. \A h \in Pool \X Mod : h # <<p, m>> => job'[h[1]][h[2]] = job[h[1]][h[2]]
    BY DEF PoolType
  <2>4. QED BY <2>1, <2>2, <2>3 DEF Holding
<1>2. Cardinality(Holding') = Cardinality(Holding) - 1
  BY <1>1, HoldingFinite, FS_RemoveElement
<1>3. QED BY <1>2, HoldingFinite DEF TokenBalance, PoolType

\* No job moves and the pools' order does not depend on anything that changes.
LEMMA Same ==
  ASSUME PoolInv, UNCHANGED <<pools, external>>, phase' \in Phase,
         phase' = phase \/ (phase = "gitlab" /\ phase' = "exited")
                        \/ (phase = "tests" /\ phase' = "done")
  PROVE  PoolInv'
<1>1. TokenBalance'
  BY DEF PoolInv, TokenBalance, Holding, pools
<1>2. PoolType'
  BY DEF PoolInv, PoolType, pools
<1>3. PoolOrder'
  BY DEF PoolInv, PoolOrder, pools
<1>4. Written'
  BY DEF PoolInv, Written, pools
<1>5. QED BY <1>1, <1>2, <1>3, <1>4 DEF PoolInv

\* A step of the job of a module in the second pool.
LEMMA SecondPool ==
  ASSUME PoolInv, NEW m \in Mod, NEW w \in Working, job["checkout"][m] \in Working,
         Advance("checkout", m, w), UNCHANGED external
  PROVE  PoolInv'
<1>1. TokenBalance'
  BY Moves DEF Advance, PoolInv, Pool
<1>2. PoolType'
  BY DEF PoolInv, PoolType, Advance, Pool
<1>3. /\ job'["clone"] = job["clone"]
      /\ \A n \in Mod : job'["checkout"][n] # "none" <=> job["checkout"][n] # "none"
      /\ job["checkout"][m] # "none"
  BY DEF PoolInv, PoolType, Advance, Pool, Working
<1>4. PoolOrder'
  BY <1>3 DEF PoolInv, PoolOrder, Advance, Pool
<1>5. Written'
  BY <1>3 DEF PoolInv, Written, Advance
<1>6. QED BY <1>1, <1>2, <1>4, <1>5 DEF PoolInv

\* The steps of "checkout test version".
Testings ==
  \/ TestFetch \/ TestHead
  \/ DependencyLookup \/ DependencyFetch \/ DependencyHead \/ TestNext

LEMMA PoolStep == PoolInv /\ [Next]_vars => PoolInv'
<1> SUFFICES ASSUME PoolInv, [Next]_vars PROVE PoolInv'
  OBVIOUS
<1>1. CASE NoGitlab
  <2>1. TokenBalance'
    BY <1>1 DEF NoGitlab, pools, PoolInv, TokenBalance, Holding
  <2>2. PoolType'
    BY <1>1 DEF NoGitlab, pools, PoolInv, PoolType, Phase, Pool
  <2>3. PoolOrder'
    BY <1>1 DEF NoGitlab, pools, PoolInv, PoolOrder, Pool, Mod
  <2>4. Written'
    BY <1>1 DEF NoGitlab, pools, PoolInv, PoolOrder, Written, Pool
  <2>5. QED BY <2>1, <2>2, <2>3, <2>4 DEF PoolInv
<1>2. CASE Gitlabs
  BY <1>2, Same DEF Gitlabs, PoolInv, PoolType, Phase
<1>3. CASE Start
  <2> DEFINE w == IF phase = "clone" THEN "append" ELSE "fetchMap"
  <2>1. /\ phase \in Pool
        /\ next \in Mod
        /\ w \in Working /\ w # "none"
        /\ job' = [job EXCEPT ![phase][next] = w]
        /\ tokens > 0 /\ tokens' = tokens - 1 /\ next' = next + 1
        /\ UNCHANGED <<phase, external>>
    <3>1. next \in Mod
      <4>1. next \in 1 .. NMod + 1 /\ next <= NMod
        BY <1>3 DEF Start, PoolInv, PoolType
      <4>2. QED BY <4>1, Numbers DEF Mod
    <3>2. w \in Working /\ w # "none"
      BY DEF Working
    <3>3. job' = [job EXCEPT ![phase][next] = w]
      BY <1>3 DEF Start
    <3>4. QED BY <1>3, <3>1, <3>2, <3>3 DEF Start
  <2> HIDE DEF w
  <2>2. job[phase][next] = "none"
    BY <2>1 DEF PoolInv, PoolType, PoolOrder, Pool, Mod
  <2>3. TokenBalance'
    BY <2>1, <2>2, Starts DEF PoolInv, Working
  <2>4. PoolType'
    BY <2>1, Numbers DEF PoolInv, PoolType, Mod
  <2>5. /\ job'[phase] = [job[phase] EXCEPT ![next] = w]
        /\ \A p \in Pool \ {phase} : job'[p] = job[p]
    BY <2>1 DEF PoolInv, PoolType
  <2>6. \A m \in Mod : m < next' <=> m < next \/ m = next
    BY <2>1, Numbers DEF PoolInv, PoolType, Mod
  <2>7. PoolOrder'
    <3>1. CASE phase = "clone"
      BY <3>1, <2>1, <2>5, <2>6 DEF PoolInv, PoolType, PoolOrder, Pool
    <3>2. CASE phase = "checkout"
      BY <3>2, <2>1, <2>5, <2>6 DEF PoolInv, PoolType, PoolOrder, Pool
    <3>3. QED BY <2>1, <3>1, <3>2 DEF Pool
  <2>8. Written'
    <3>1. CASE phase = "clone"
      BY <3>1, <2>1, <2>5 DEF PoolInv, PoolType, Written, Pool, w
    <3>2. CASE phase = "checkout"
      BY <3>2, <2>1, <2>5 DEF PoolInv, PoolType, Written, Pool
    <3>3. QED BY <2>1, <3>1, <3>2 DEF Pool
  <2>9. QED BY <2>3, <2>4, <2>7, <2>8 DEF PoolInv
<1>4. CASE Wait
  <2>1. TokenBalance'
    BY <1>4 DEF Wait, PoolInv, TokenBalance, Holding
  <2>2. PoolType'
    BY <1>4, Numbers DEF Wait, PoolInv, PoolType, Phase, Pool, Mod
  <2>3. PoolOrder'
    BY <1>4 DEF Wait, PoolInv, PoolOrder, Pool, Mod
  <2>4. Written'
    BY <1>4 DEF Wait, PoolInv, Written, Pool
  <2>5. QED BY <2>1, <2>2, <2>3, <2>4 DEF PoolInv
<1>5. CASE Testings
  BY <1>5, Same DEF Testings, TestFetch, TestHead, DependencyLookup, DependencyFetch,
     DependencyHead, TestNext, PoolInv, PoolType
<1>6. CASE Finish
  BY <1>6, Same DEF Finish, Phase
<1>7. ASSUME NEW m \in Mod, WriteExternal(m) PROVE PoolInv'
  <2>1. /\ job["clone"][m] = "append"
        /\ job' = [job EXCEPT !["clone"][m] = "token"]
        /\ external' = [external EXCEPT ![m] = IF @ = "none" THEN "branch" ELSE @]
        /\ UNCHANGED <<phase, next, tokens>>
    BY <1>7 DEF WriteExternal, Advance
  <2>2. TokenBalance'
    BY <2>1, Moves DEF PoolInv, Pool, Working
  <2>3. PoolType'
    BY <2>1 DEF PoolInv, PoolType, Working, Pool
  <2>4. /\ job'["checkout"] = job["checkout"]
        /\ job'["clone"] = [job["clone"] EXCEPT ![m] = "token"]
    BY <2>1 DEF PoolInv, PoolType, Pool
  <2>5. PoolOrder'
    BY <2>1, <2>4 DEF PoolInv, PoolType, PoolOrder, Pool
  <2>6. Written'
    <3>1. phase = "clone"
      BY <2>1 DEF PoolInv, PoolType, PoolOrder, Phase, Pool
    <3>2. external[m] # "stale"
      BY <3>1 DEF PoolInv, Written
    <3>3. external'[m] = "branch" /\ \A n \in Mod \ {m} : external'[n] = external[n]
      BY <2>1, <3>2 DEF PoolInv, PoolType
    <3>4. QED BY <2>1, <2>4, <3>1, <3>3 DEF PoolInv, PoolType, Written, Pool
  <2>7. QED BY <2>2, <2>3, <2>5, <2>6 DEF PoolInv
<1>8. ASSUME NEW m \in Mod, FetchMap(m) \/ FetchBranch(m) \/ CheckoutHead(m) PROVE PoolInv'
  <2>1. /\ job["checkout"][m] \in Working
        /\ \E w \in Working : Advance("checkout", m, w)
        /\ UNCHANGED external
    BY <1>8 DEF FetchMap, FetchBranch, CheckoutHead, Working
  <2>2. QED BY <2>1, SecondPool
<1>9. ASSUME NEW m \in Mod, NEW p \in Pool, PutBack(p, m) PROVE PoolInv'
  <2>1. /\ job[p][m] = "token"
        /\ job' = [job EXCEPT ![p][m] = "ended"]
        /\ tokens' = tokens + 1
        /\ UNCHANGED <<phase, next, external>>
    BY <1>9 DEF PutBack
  <2>2. TokenBalance'
    BY <2>1, Returns DEF PoolInv, Working
  <2>3. PoolType'
    BY <2>1 DEF PoolInv, PoolType
  <2>4. /\ job'[p] = [job[p] EXCEPT ![m] = "ended"]
        /\ \A q \in Pool \ {p} : job'[q] = job[q]
    BY <2>1 DEF PoolInv, PoolType
  <2>5. PoolOrder'
    <3>1. CASE p = "clone"
      BY <3>1, <2>1, <2>4 DEF PoolInv, PoolType, PoolOrder, Pool
    <3>2. CASE p = "checkout"
      BY <3>2, <2>1, <2>4 DEF PoolInv, PoolType, PoolOrder, Pool
    <3>3. QED BY <3>1, <3>2 DEF Pool
  <2>6. Written'
    <3>1. CASE p = "clone"
      BY <3>1, <2>1, <2>4 DEF PoolInv, PoolType, Written, Pool
    <3>2. CASE p = "checkout"
      BY <3>2, <2>1, <2>4 DEF PoolInv, PoolType, Written, Pool
    <3>3. QED BY <3>1, <3>2 DEF Pool
  <2>7. QED BY <2>2, <2>3, <2>5, <2>6 DEF PoolInv
<1>10. CASE Ended \/ UNCHANGED vars
  BY <1>10, Same DEF Ended, vars, pools, PoolInv, PoolType
<1>11. QED
  BY <1>1, <1>2, <1>3, <1>4, <1>5, <1>6, <1>7, <1>8, <1>9, <1>10
     DEF Next, Script, Testings, Job

\* git_rcpco.sh:76-168: the jobs of both pools and the fifo share `thread`
\* tokens at every moment, so no more than that run, and no token is lost.
THEOREM TokensKept == Spec => []TokenBalance
<1>1. PoolInv => TokenBalance
  BY DEF PoolInv
<1>2. QED BY <1>1, PoolInit, PoolStep, PTL DEF Spec

\* git_rcpco.sh:90, 124, 130: rcp_external is complete, and of this run, for
\* every job of the second pool.
THEOREM ExternalRead == Spec => []ExternalComplete
<1>1. PoolInv => ExternalComplete
  <2> SUFFICES ASSUME PoolInv, NEW m \in Mod, job["checkout"][m] # "none"
               PROVE  external = [n \in Mod |-> "branch"]
    BY DEF ExternalComplete
  <2>1. phase \in {"checkout", "tests", "done"}
    BY DEF PoolInv, PoolType, PoolOrder, Phase, Pool
  <2>2. \A n \in Mod : external[n] = "branch"
    BY <2>1 DEF PoolInv, PoolOrder, Written
  <2>3. QED BY <2>2 DEF PoolInv, PoolType
<1>2. QED BY <1>1, PoolInit, PoolStep, PTL DEF Spec

-----------------------------------------------------------------------------
(* The types, and the branch each module ends the second pool on *)

DepSteps == {"deps", "depFetch", "depPlain", "depHead"}
Places == [test : 1 .. Len(Tests) + 1, step : {"fetch", "head"} \cup DepSteps]
Failures == ({Main} \cup Mod) \X ({"gitlab", "map", "branch"} \cup Ref)

FetchTypes ==
  /\ gitlab \in BOOLEAN
  /\ tries \in [{Main} \cup Mod -> 0 .. MaxRetry - 1]
  /\ branch \in [Mod -> {"none", "stale", "branch"}]
  /\ fetched \in [Mod -> Version] /\ head \in [Mod -> Version]
  /\ failed \subseteq Failures
  /\ at \in Places
  /\ deps \in Seq(Request) /\ todo \in Seq(Request)
  /\ at.step \in DepSteps \ {"deps"} => todo # <<>>

Owns(v, m) == v[m] = "branch" \/ <<m, "branch">> \in failed

\* Where the job of a module in the second pool stands, and what it has by then.
JobOwn(m) ==
  LET j == job["checkout"][m] IN
    /\ j \in {"none", "fetchMap", "fetchBranch", "head", "token", "ended"}
    /\ j = "none" => tries[m] = 0
    /\ j = "fetchMap" => tries[m] = 0 \/ branch[m] = "branch"
    /\ j \in {"fetchBranch", "head", "token", "ended"} => branch[m] = "branch"
    /\ j = "head" => Owns(fetched, m)
    /\ j \in {"token", "ended"} /\ phase # "tests" /\ phase # "done" => Owns(head, m)

Untested == phase = "tests" /\ at = [test |-> 1, step |-> "fetch"]

AtEnd ==
  /\ phase \in {"tests", "done"} => \A m \in Mod : job["checkout"][m] = "ended"
  /\ OnOwnBranch

OwnInv == PoolInv /\ FetchTypes /\ (\A m \in Mod : JobOwn(m)) /\ AtEnd

LEMMA Values ==
  /\ Main \in Nat /\ Main \notin Mod /\ NMod \in Nat /\ MaxRetry \in Nat /\ MaxRetry > 0
  /\ \A r \in Ref : r \in Version
  /\ \A m \in Mod : m \in Nat /\ m > 0
  /\ Tests \in Seq(Request) /\ Len(Tests) \in Nat
  /\ Depends \in [Version -> Seq(Request)]
  /\ {"none", "old", "stale", "map", "branch"} \subseteq Version
  /\ \A r \in Request : r.sub \in Mod /\ r.ref \in Ref
<1>1. NMod \in Nat /\ MaxRetry \in Nat /\ MaxRetry > 0 /\ Tests \in Seq(Request)
      /\ Depends \in [Version -> Seq(Request)]
  BY RcpcoAssumption
<1>2. Main \in Nat /\ Main \notin Mod /\ \A m \in Mod : m \in Nat /\ m > 0
  BY <1>1 DEF Main, Mod
<1>3. /\ \A r \in Ref : r \in Version
      /\ {"none", "old", "stale", "map", "branch"} \subseteq Version
  BY DEF Version
<1>4. \A r \in Request : r.sub \in Mod /\ r.ref \in Ref
  BY DEF Request
<1>5. Len(Tests) \in Nat
  BY <1>1
<1>6. QED BY <1>1, <1>2, <1>3, <1>4, <1>5

LEMMA OwnInit == Init => OwnInv
<1> SUFFICES ASSUME Init PROVE OwnInv
  OBVIOUS
<1>1. PoolInv
  BY PoolInit
<1>2. FetchTypes
  <2>1. head \in [Mod -> Version] /\ fetched \in [Mod -> Version]
    BY Values DEF Init
  <2>2. tries \in [{Main} \cup Mod -> 0 .. MaxRetry - 1]
    BY Values DEF Init
  <2>3. at \in Places
    BY Values DEF Init, Places
  <2>4. gitlab \in BOOLEAN
    BY RcpcoAssumption DEF Init
  <2>5. QED BY <2>1, <2>2, <2>3, <2>4 DEF Init, FetchTypes, DepSteps
<1>3. ASSUME NEW m \in Mod PROVE JobOwn(m)
  BY DEF Init, JobOwn, Pool
<1>4. AtEnd
  BY DEF Init, AtEnd, OnOwnBranch
<1>5. QED BY <1>1, <1>2, <1>3, <1>4 DEF OwnInv

\* The two ways in which a fetch under retry_cmd goes on.
LEMMA Tried ==
  ASSUME FetchTypes, NEW p \in {Main} \cup Mod,
         \/ tries' = [tries EXCEPT ![p] = 0]
         \/ FetchAgain(p)
  PROVE  tries' \in [{Main} \cup Mod -> 0 .. MaxRetry - 1]
<1>1. CASE tries' = [tries EXCEPT ![p] = 0]
  BY <1>1, Values DEF FetchTypes
<1>2. CASE FetchAgain(p)
  <2>1. tries[p] + 1 \in 0 .. MaxRetry - 1
    BY <1>2, Values DEF FetchAgain, FetchTypes
  <2>2. QED BY <1>2, <2>1 DEF FetchAgain, FetchTypes
<1>3. QED BY <1>1, <1>2

LEMMA Lost ==
  ASSUME FetchTypes, NEW m \in Mod, FetchFails(m)
  PROVE  fetched' \in [Mod -> Version] /\ \A n \in Mod : n # m => fetched'[n] = fetched[n]
BY Values DEF FetchTypes, FetchFails

LEMMA Out ==
  ASSUME FetchTypes, NEW m \in Mod, CheckoutFetchHead(m)
  PROVE  /\ head' \in [Mod -> Version]
         /\ \A n \in Mod : n # m => head'[n] = head[n]
         /\ Owns(fetched, m) => (head'[m] = "branch" \/ <<m, "branch">> \in failed)
BY DEF FetchTypes, CheckoutFetchHead, Owns

\* A step of the job of one module in the second pool leaves the others alone.
LEMMA OneJob ==
  ASSUME OwnInv, PoolInv', NEW m \in Mod, NEW w \in Working,
         job["checkout"][m] \in Working, Advance("checkout", m, w),
         failed \subseteq failed', FetchTypes', JobOwn(m)',
         \A n \in Mod : n # m => /\ tries'[n] = tries[n] /\ branch'[n] = branch[n]
                                 /\ fetched'[n] = fetched[n] /\ head'[n] = head[n]
  PROVE  OwnInv'
<1>1. /\ job'["checkout"][m] = w /\ UNCHANGED <<phase, at>>
      /\ \A n \in Mod : n # m => job'["checkout"][n] = job["checkout"][n]
  BY DEF OwnInv, PoolInv, PoolType, Pool, Advance, tests
<1>2. ASSUME NEW n \in Mod PROVE JobOwn(n)'
  <2>1. CASE n = m
    BY <2>1
  <2>2. CASE n # m
    BY <2>2, <1>1 DEF OwnInv, JobOwn, Owns
  <2>3. QED BY <2>1, <2>2
<1>3. AtEnd'
  <2>1. phase \notin {"tests", "done"}
    BY DEF OwnInv, AtEnd, Working
  <2>2. QED BY <2>1, <1>1 DEF AtEnd, OnOwnBranch
<1>4. QED BY <1>2, <1>3 DEF OwnInv

\* A step of the script that moves no job.
LEMMA Aside ==
  ASSUME OwnInv, PoolInv', FetchTypes', UNCHANGED <<job, branch>>, failed \subseteq failed',
         \A m \in Mod : tries'[m] = tries[m],
         \/ phase' \notin {"tests", "done"} /\ phase \notin {"tests", "done"}
            /\ UNCHANGED repos
         \/ phase \in {"tests", "done"} /\ phase' \in {"tests", "done"} /\ ~ Untested'
  PROVE  OwnInv'
<1>1. ASSUME NEW m \in Mod PROVE JobOwn(m)'
  <2>1. JobOwn(m)
    BY DEF OwnInv
  <2>2. CASE phase \notin {"tests", "done"}
    BY <2>1, <2>2 DEF JobOwn, Owns, repos
  <2>3. CASE phase \in {"tests", "done"}
    <3>1. job["checkout"][m] = "ended"
      BY <2>3 DEF OwnInv, AtEnd
    <3>2. QED BY <2>1, <2>3, <3>1 DEF JobOwn
  <2>4. QED BY <2>2, <2>3
<1>2. AtEnd'
  BY DEF OwnInv, AtEnd, OnOwnBranch, Untested
<1>3. QED BY <1>1, <1>2 DEF OwnInv

LEMMA MapStep ==
  ASSUME OwnInv, PoolInv', NEW m \in Mod, FetchMap(m)
  PROVE  OwnInv'
<1>1. /\ job["checkout"][m] = "fetchMap"
      /\ branch' = [branch EXCEPT ![m] = IF tries[m] = 0 THEN external[m] ELSE @]
      /\ UNCHANGED <<gitlab, at, deps, todo, head, phase>>
  BY DEF FetchMap, Advance, tests
<1>2. external[m] = "branch"
  <2>1. phase \in {"checkout", "tests", "done"}
    BY <1>1 DEF OwnInv, PoolInv, PoolType, PoolOrder, Phase, Pool
  <2>2. QED BY <2>1 DEF OwnInv, PoolInv, PoolOrder, Written
<1>3. /\ branch' \in [Mod -> {"none", "stale", "branch"}]
      /\ branch'[m] = "branch" /\ \A n \in Mod : n # m => branch'[n] = branch[n]
  BY <1>1, <1>2 DEF OwnInv, FetchTypes, JobOwn
<1>4. \E w \in {"fetchMap", "fetchBranch"} :
        /\ Advance("checkout", m, w)
        /\ tries' = [tries EXCEPT ![m] = 0] \/ FetchAgain(m)
        /\ FetchFails(m) \/ fetched' = [fetched EXCEPT ![m] = "map"]
        /\ failed' = failed \/ failed' = failed \cup {<<m, "map">>}
  BY DEF FetchMap, FetchOk, GiveUp
<1>5. PICK w \in {"fetchMap", "fetchBranch"} : Advance("checkout", m, w)
  BY <1>4
<1>6. tries' \in [{Main} \cup Mod -> 0 .. MaxRetry - 1]
      /\ \A n \in Mod : n # m => tries'[n] = tries[n]
  <2>1. m \in {Main} \cup Mod
    OBVIOUS
  <2>2. QED BY <1>4, <2>1, Tried DEF OwnInv, FetchTypes, FetchAgain
<1>7. fetched' \in [Mod -> Version] /\ \A n \in Mod : n # m => fetched'[n] = fetched[n]
  BY <1>4, Lost, Values DEF OwnInv, FetchTypes
<1>8. failed \subseteq failed' /\ failed' \subseteq Failures
  BY <1>4 DEF OwnInv, FetchTypes, Failures
<1>9. FetchTypes'
  BY <1>1, <1>3, <1>6, <1>7, <1>8 DEF OwnInv, FetchTypes
<1>10. JobOwn(m)'
  <2>1. job'["checkout"][m] = w
    BY <1>5 DEF OwnInv, PoolInv, PoolType, Pool, Advance
  <2>2. QED BY <2>1, <1>3 DEF JobOwn
<1>11. job["checkout"][m] \in Working /\ w \in Working
  BY <1>1 DEF Working
<1>12. QED BY <1>1, <1>3, <1>5, <1>6, <1>7, <1>8, <1>9, <1>10, <1>11, OneJob

LEMMA BranchStep ==
  ASSUME OwnInv, PoolInv', NEW m \in Mod, FetchBranch(m)
  PROVE  OwnInv'
<1>1. /\ job["checkout"][m] = "fetchBranch" /\ branch[m] = "branch"
      /\ UNCHANGED <<gitlab, at, deps, todo, branch, head, phase>>
  BY DEF FetchBranch, Advance, tests, OwnInv, JobOwn
<1>2. \E w \in {"fetchBranch", "head"} :
        /\ Advance("checkout", m, w)
        /\ tries' = [tries EXCEPT ![m] = 0] \/ FetchAgain(m)
        /\ FetchFails(m) \/ fetched' = [fetched EXCEPT ![m] = "branch"]
        /\ failed' = failed \/ failed' = failed \cup {<<m, "branch">>}
        /\ w = "head" => \/ fetched' = [fetched EXCEPT ![m] = "branch"]
                         \/ <<m, "branch">> \in failed'
  <2>1. FetchOk(m, m, IF branch[m] = "none" THEN "map" ELSE branch[m]) =>
          /\ fetched' = [fetched EXCEPT ![m] = "branch"]
          /\ tries' = [tries EXCEPT ![m] = 0]
    BY <1>1 DEF FetchOk
  <2>2. QED BY <2>1 DEF FetchBranch, GiveUp
<1>3. PICK w \in {"fetchBranch", "head"} :
        /\ Advance("checkout", m, w)
        /\ w = "head" => \/ fetched' = [fetched EXCEPT ![m] = "branch"]
                         \/ <<m, "branch">> \in failed'
  BY <1>2
<1>4. tries' \in [{Main} \cup Mod -> 0 .. MaxRetry - 1]
      /\ \A n \in Mod : n # m => tries'[n] = tries[n]
  <2>1. m \in {Main} \cup Mod
    OBVIOUS
  <2>2. QED BY <1>2, <2>1, Tried DEF OwnInv, FetchTypes, FetchAgain
<1>5. fetched' \in [Mod -> Version] /\ \A n \in Mod : n # m => fetched'[n] = fetched[n]
  BY <1>2, Lost, Values DEF OwnInv, FetchTypes
<1>6. failed \subseteq failed' /\ failed' \subseteq Failures
  BY <1>2 DEF OwnInv, FetchTypes, Failures
<1>7. FetchTypes'
  BY <1>1, <1>4, <1>5, <1>6 DEF OwnInv, FetchTypes
<1>8. JobOwn(m)'
  <2>1. job'["checkout"][m] = w
    BY <1>3 DEF OwnInv, PoolInv, PoolType, Pool, Advance
  <2>2. w = "head" => fetched'[m] = "branch" \/ <<m, "branch">> \in failed'
    BY <1>3 DEF OwnInv, FetchTypes
  <2>3. QED BY <2>1, <2>2, <1>1 DEF JobOwn, Owns
<1>9. job["checkout"][m] \in Working /\ w \in Working
  BY <1>1 DEF Working
<1>10. QED BY <1>1, <1>3, <1>4, <1>5, <1>6, <1>7, <1>8, <1>9, OneJob

LEMMA HeadStep ==
  ASSUME OwnInv, PoolInv', NEW m \in Mod, CheckoutHead(m)
  PROVE  OwnInv'
<1>1. /\ job["checkout"][m] = "head" /\ branch[m] = "branch" /\ Owns(fetched, m)
      /\ Advance("checkout", m, "token") /\ CheckoutFetchHead(m)
      /\ UNCHANGED <<gitlab, at, deps, todo, branch, phase, tries, fetched, failed>>
  BY DEF CheckoutHead, Advance, tests, OwnInv, JobOwn
<1>2. /\ head' \in [Mod -> Version] /\ \A n \in Mod : n # m => head'[n] = head[n]
      /\ head'[m] = "branch" \/ <<m, "branch">> \in failed
  BY <1>1, Out DEF OwnInv
<1>3. FetchTypes'
  BY <1>1, <1>2 DEF OwnInv, FetchTypes
<1>4. JobOwn(m)'
  <2>1. job'["checkout"][m] = "token"
    BY <1>1 DEF OwnInv, PoolInv, PoolType, Pool, Advance
  <2>2. QED BY <2>1, <1>1, <1>2 DEF JobOwn, Owns
<1>5. job["checkout"][m] \in Working /\ "token" \in Working
  BY <1>1 DEF Working
<1>6. QED BY <1>1, <1>2, <1>3, <1>4, <1>5, OneJob

LEMMA PutBackStep ==
  ASSUME OwnInv, PoolInv', NEW p \in Pool, NEW m \in Mod, PutBack(p, m)
  PROVE  OwnInv'
<1>1. /\ job[p][m] = "token" /\ job' = [job EXCEPT ![p][m] = "ended"]
      /\ UNCHANGED <<gitlab, phase, tries, branch, fetched, head, failed, at, deps, todo>>
  BY DEF PutBack, repos, tests
<1>2. \A n \in Mod : \/ job'["checkout"][n] = job["checkout"][n]
                     \/ job["checkout"][n] = "token" /\ job'["checkout"][n] = "ended"
  BY <1>1 DEF OwnInv, PoolInv, PoolType, Pool
<1>3. FetchTypes'
  BY <1>1 DEF OwnInv, FetchTypes
<1>4. ASSUME NEW n \in Mod PROVE JobOwn(n)'
  BY <1>1, <1>2 DEF OwnInv, JobOwn, Owns
<1>5. AtEnd'
  BY <1>1, <1>2 DEF OwnInv, AtEnd, OnOwnBranch
<1>6. QED BY <1>3, <1>4, <1>5 DEF OwnInv

LEMMA StartStep ==
  ASSUME OwnInv, PoolInv', Start
  PROVE  OwnInv'
<1>1. /\ phase \in Pool /\ next \in Mod /\ job[phase][next] = "none"
      /\ UNCHANGED <<gitlab, phase, tries, branch, fetched, head, failed, at, deps, todo>>
  <2>1. next \in Mod /\ phase \in Pool
    BY Numbers DEF Start, OwnInv, PoolInv, PoolType, Mod
  <2>2. job[phase][next] = "none"
    <3>1. ~ (next < next)
      BY <2>1, Values
    <3>2. QED BY <2>1, <3>1 DEF OwnInv, PoolInv, PoolOrder, Pool
  <2>3. QED BY <2>1, <2>2 DEF Start, repos, tests
<1>2. \A n \in Mod : \/ job'["checkout"][n] = job["checkout"][n]
                     \/ job["checkout"][n] = "none" /\ job'["checkout"][n] = "fetchMap"
  BY <1>1 DEF Start, OwnInv, PoolInv, PoolType, Pool
<1>3. FetchTypes'
  BY <1>1 DEF OwnInv, FetchTypes
<1>4. ASSUME NEW n \in Mod PROVE JobOwn(n)'
  BY <1>1, <1>2 DEF OwnInv, JobOwn, Owns
<1>5. AtEnd'
  BY <1>1 DEF AtEnd, OnOwnBranch, Pool
<1>6. QED BY <1>3, <1>4, <1>5 DEF OwnInv

LEMMA WaitStep ==
  ASSUME OwnInv, PoolInv', Wait
  PROVE  OwnInv'
<1>1. /\ phase \in Pool /\ \A m \in Mod : job[phase][m] = "ended"
      /\ phase' = IF phase = "clone" THEN "checkout" ELSE "tests"
      /\ UNCHANGED <<gitlab, job, tries, branch, fetched, head, failed, at, deps, todo>>
  BY DEF Wait, repos, tests
<1>2. FetchTypes'
  BY <1>1 DEF OwnInv, FetchTypes
<1>3. \A m \in Mod : job["checkout"][m] = "ended" => Owns(head, m)
  BY <1>1 DEF OwnInv, JobOwn, Pool
<1>4. ASSUME NEW n \in Mod PROVE JobOwn(n)'
  BY <1>1, <1>3 DEF OwnInv, JobOwn, Owns, Pool
<1>5. AtEnd'
  BY <1>1, <1>3 DEF AtEnd, OnOwnBranch, Pool, Owns
<1>6. QED BY <1>2, <1>4, <1>5 DEF OwnInv

\* The requests of "checkout test version" move no branch back.
LEMMA TestsStep ==
  ASSUME OwnInv, PoolInv', Testings
  PROVE  OwnInv'
<1>1. /\ phase = "tests" /\ phase' = "tests" /\ at.test \in Nat /\ at.test > 0
      /\ at.test <= Len(Tests) /\ UNCHANGED <<gitlab, job, branch>>
  <2>1. at.test \in 1 .. Len(Tests) + 1
    BY DEF OwnInv, FetchTypes, Places
  <2>2. at.test \in Nat /\ at.test > 0
    BY <2>1, Values
  <2>3. QED BY <2>2 DEF Testings, TestFetch, TestHead, DependencyLookup, DependencyFetch,
       DependencyHead, TestNext, Testing, pools
<1>2. Tests[at.test].sub \in Mod /\ Tests[at.test].ref \in Ref
  <2>1. Tests[at.test] \in Request
    BY <1>1, Values
  <2>2. QED BY <2>1, Values
<1>3. todo # <<>> => /\ Head(todo).sub \in Mod /\ Head(todo).ref \in Ref
                     /\ Tail(todo) \in Seq(Request)
  <2>1. todo # <<>> => Head(todo) \in Request /\ Tail(todo) \in Seq(Request)
    BY DEF OwnInv, FetchTypes
  <2>2. QED BY <2>1, Values
<1>4. /\ tries' \in [{Main} \cup Mod -> 0 .. MaxRetry - 1]
      /\ \A m \in Mod : tries'[m] = tries[m]
  <2>1. CASE DependencyFetch
    <3>1. tries' = [tries EXCEPT ![Main] = 0] \/ FetchAgain(Main)
      BY <2>1 DEF DependencyFetch, FetchOk, GiveUp
    <3>2. Main \in {Main} \cup Mod
      OBVIOUS
    <3>3. QED BY <3>1, <3>2, Tried, Values DEF OwnInv, FetchTypes, FetchAgain
  <2>2. CASE TestFetch \/ TestHead \/ DependencyLookup \/ DependencyHead \/ TestNext
    BY <2>2 DEF TestFetch, TestHead, DependencyLookup, DependencyHead, TestNext, pools, OwnInv,
       FetchTypes
  <2>3. QED BY <2>1, <2>2 DEF Testings
<1>5. fetched' \in [Mod -> Version]
  <2>1. CASE TestFetch
    <3>1. \/ fetched' = [fetched EXCEPT ![Tests[at.test].sub] = Tests[at.test].ref]
          \/ FetchFails(Tests[at.test].sub)
      BY <2>1 DEF TestFetch
    <3>2. QED BY <3>1, <1>2, Lost, Values DEF OwnInv, FetchTypes
  <2>2. CASE DependencyFetch
    <3>1. /\ todo # <<>>
          /\ \/ \E v \in {"map", Head(todo).ref} : fetched' = [fetched EXCEPT ![Head(todo).sub] = v]
             \/ FetchFails(Head(todo).sub)
      BY <2>2 DEF DependencyFetch, FetchOk, Testing, DepSteps, OwnInv, FetchTypes
    <3>2. QED BY <3>1, <1>3, Lost, Values DEF OwnInv, FetchTypes
  <2>3. CASE TestHead \/ DependencyLookup \/ DependencyHead \/ TestNext
    BY <2>3 DEF TestHead, DependencyLookup, DependencyHead, TestNext, repos, OwnInv, FetchTypes
  <2>4. QED BY <2>1, <2>2, <2>3 DEF Testings
<1>6. failed \subseteq failed' /\ failed' \subseteq Failures
  <2>1. CASE TestFetch
    <3>1. failed' = failed \/ failed' = failed \cup {<<Tests[at.test].sub, Tests[at.test].ref>>}
      BY <2>1 DEF TestFetch
    <3>2. QED BY <3>1, <1>2 DEF OwnInv, FetchTypes, Failures
  <2>2. CASE DependencyLookup \/ DependencyFetch
    <3>1. /\ todo # <<>>
          /\ failed' = failed \/ failed' = failed \cup {<<Head(todo).sub, Head(todo).ref>>}
      BY <2>2 DEF DependencyLookup, DependencyFetch, Testing, DepSteps, OwnInv, FetchTypes
    <3>2. QED BY <3>1, <1>3 DEF OwnInv, FetchTypes, Failures
  <2>3. CASE TestHead \/ DependencyHead \/ TestNext
    BY <2>3 DEF TestHead, DependencyHead, TestNext, OwnInv, FetchTypes
  <2>4. QED BY <2>1, <2>2, <2>3 DEF Testings
<1>7. /\ head' \in [Mod -> Version]
      /\ deps' \in Seq(Request) /\ todo' \in Seq(Request)
  <2>1. CASE TestHead
    <3>1. /\ CheckoutFetchHead(Tests[at.test].sub)
          /\ deps' = DepsOf(Tests[at.test].ref, head'[Tests[at.test].sub])
          /\ todo' = deps'
      BY <2>1 DEF TestHead
    <3>2. head' \in [Mod -> Version]
      BY <3>1, <1>2, Out DEF OwnInv
    <3>3. Depends[head'[Tests[at.test].sub]] \in Seq(Request)
      BY <3>2, <1>2, Values
    <3>4. deps' \in Seq(Request)
      BY <3>1, <3>3 DEF DepsOf, OwnInv, FetchTypes
    <3>5. QED BY <3>1, <3>2, <3>4
  <2>2. CASE DependencyHead
    <3>1. todo # <<>>
      BY <2>2 DEF DependencyHead, Testing, DepSteps, OwnInv, FetchTypes
    <3>2. QED BY <2>2, <3>1, <1>3, Out DEF DependencyHead, OwnInv, FetchTypes
  <2>3. CASE TestFetch \/ DependencyLookup \/ DependencyFetch \/ TestNext
    BY <1>3, <2>3 DEF TestFetch, DependencyLookup, DependencyFetch, TestNext, repos, OwnInv,
       FetchTypes
  <2>4. QED BY <2>1, <2>2, <2>3 DEF Testings
<1>8. at' \in Places /\ at' # [test |-> 1, step |-> "fetch"]
  <2>1. CASE TestNext
    <3>1. at' = [test |-> at.test + 1, step |-> "fetch"]
      BY <2>1 DEF TestNext
    <3>2. at.test + 1 \in 1 .. Len(Tests) + 1 /\ at.test + 1 # 1
      BY <1>1, Values
    <3>3. QED BY <3>1, <3>2 DEF Places
  <2>2. CASE TestFetch \/ TestHead \/ DependencyLookup \/ DependencyFetch \/ DependencyHead
    <3>1. \/ \E s \in {"head"} \cup DepSteps : at' = [at EXCEPT !.step = s]
          \/ at' = at /\ at.step \in DepSteps
      BY <2>2 DEF TestFetch, TestHead, DependencyLookup, DependencyFetch, DependencyHead, Step,
         Testing, DepSteps
    <3>2. at \in Places
      BY DEF OwnInv, FetchTypes
    <3>3. QED BY <3>1, <3>2 DEF Places, DepSteps
  <2>3. QED BY <2>1, <2>2 DEF Testings
<1>9. FetchTypes'
  <2>1. at'.step \in DepSteps \ {"deps"} => todo' # <<>>
    <3>1. at \in Places /\ (at.step \in DepSteps \ {"deps"} => todo # <<>>)
      BY DEF OwnInv, FetchTypes
    <3>2. CASE TestFetch \/ TestHead \/ DependencyHead \/ TestNext
      BY <3>1, <3>2 DEF TestFetch, TestHead, DependencyHead, TestNext, Step, Places, DepSteps
    <3>3. CASE DependencyLookup
      BY <3>1, <3>3 DEF DependencyLookup, Testing, DepSteps
    <3>4. CASE DependencyFetch
      BY <3>1, <3>4 DEF DependencyFetch, Testing, DepSteps
    <3>5. QED BY <3>2, <3>3, <3>4 DEF Testings
  <2>2. QED BY <2>1, <1>1, <1>4, <1>5, <1>6, <1>7, <1>8 DEF OwnInv, FetchTypes
<1>10. ~ Untested'
  BY <1>8 DEF Untested
<1>11. QED BY <1>1, <1>4, <1>6, <1>9, <1>10, Aside

LEMMA OwnStep == OwnInv /\ [Next]_vars => OwnInv'
<1> SUFFICES ASSUME OwnInv, [Next]_vars PROVE OwnInv'
  OBVIOUS
<1>0. PoolInv'
  BY PoolStep DEF OwnInv
<1>1. CASE NoGitlab
  <2>1. FetchTypes'
    BY <1>1 DEF NoGitlab, OwnInv, FetchTypes, repos, tests
  <2>2. QED BY <1>0, <1>1, <2>1, Aside DEF NoGitlab, pools
<1>2. CASE Gitlabs
  <2>1. /\ phase = "gitlab" /\ phase' \in {"gitlab", "exited"}
        /\ tries' = [tries EXCEPT ![Main] = 0] \/ FetchAgain(Main)
        /\ failed' = failed \/ failed' = failed \cup {<<Main, "gitlab">>}
        /\ UNCHANGED <<gitlab, job, branch, repos, at, deps, todo>>
    BY <1>2 DEF Gitlabs, GiveUp, FetchAgain, pools, tests
  <2>2. /\ tries' \in [{Main} \cup Mod -> 0 .. MaxRetry - 1]
        /\ \A m \in Mod : tries'[m] = tries[m]
    <3>1. Main \in {Main} \cup Mod
      OBVIOUS
    <3>2. QED BY <2>1, <3>1, Tried, Values DEF OwnInv, FetchTypes, FetchAgain
  <2>3. failed \subseteq failed' /\ failed' \subseteq Failures
    BY <2>1 DEF OwnInv, FetchTypes, Failures
  <2>4. FetchTypes'
    BY <2>1, <2>2, <2>3 DEF OwnInv, FetchTypes, repos
  <2>5. QED BY <1>0, <2>1, <2>2, <2>3, <2>4, Aside
<1>3. CASE Start
  BY <1>0, <1>3, StartStep
<1>4. CASE Wait
  BY <1>0, <1>4, WaitStep
<1>5. CASE Testings
  BY <1>0, <1>5, TestsStep
<1>6. CASE Finish
  <2>1. phase = "tests" /\ phase' = "done"
        /\ UNCHANGED <<gitlab, job, tries, branch, fetched, head, failed, at, deps, todo>>
    BY <1>6 DEF Finish, pools, repos, tests
  <2>2. FetchTypes'
    BY <2>1 DEF OwnInv, FetchTypes
  <2>3. QED BY <1>0, <2>1, <2>2, Aside DEF Untested
<1>7. ASSUME NEW m \in Mod, WriteExternal(m) PROVE OwnInv'
  <2>1. /\ job["clone"][m] = "append" /\ job' = [job EXCEPT !["clone"][m] = "token"]
        /\ UNCHANGED <<gitlab, phase, tries, branch, fetched, head, failed, at, deps, todo>>
    BY <1>7 DEF WriteExternal, Advance, repos, tests
  <2>2. job'["checkout"] = job["checkout"]
    BY <2>1 DEF OwnInv, PoolInv, PoolType, Pool
  <2>3. FetchTypes'
    BY <2>1 DEF OwnInv, FetchTypes
  <2>4. ASSUME NEW n \in Mod PROVE JobOwn(n)'
    BY <2>1, <2>2 DEF OwnInv, JobOwn, Owns
  <2>5. AtEnd'
    BY <2>1, <2>2 DEF OwnInv, AtEnd, OnOwnBranch
  <2>6. QED BY <1>0, <2>3, <2>4, <2>5 DEF OwnInv
<1>8. ASSUME NEW m \in Mod, FetchMap(m) \/ FetchBranch(m) \/ CheckoutHead(m) PROVE OwnInv'
  BY <1>0, <1>8, MapStep, BranchStep, HeadStep
<1>9. ASSUME NEW m \in Mod, NEW p \in Pool, PutBack(p, m) PROVE OwnInv'
  BY <1>0, <1>9, PutBackStep
<1>10. CASE Ended \/ UNCHANGED vars
  <2>1. UNCHANGED <<gitlab, phase, job, tries, branch, fetched, head, failed, at, deps, todo>>
    BY <1>10 DEF Ended, vars, pools, repos, tests
  <2>2. QED BY <1>0, <2>1 DEF OwnInv, FetchTypes, JobOwn, Owns, AtEnd, OnOwnBranch
<1>11. QED
  BY <1>1, <1>2, <1>3, <1>4, <1>5, <1>6, <1>7, <1>8, <1>9, <1>10
     DEF Next, Script, Testings, Job

LEMMA OwnAlways == Spec => []OwnInv
BY OwnInit, OwnStep, PTL DEF Spec

\* git_rcpco.sh: every variable of the script keeps its type, the number of
\* tokens in the fifo between 0 and `thread`, that of tries below max_retry.
THEOREM TypeCorrect == Spec => []TypeOK
<1>1. OwnInv => TypeOK
  <2> SUFFICES ASSUME OwnInv PROVE TypeOK
    OBVIOUS
  <2>1. tokens \in 0 .. Thread
    BY HoldingFinite, Numbers DEF OwnInv, PoolInv, PoolType, TokenBalance
  <2>2. QED BY <2>1 DEF OwnInv, PoolInv, PoolType, FetchTypes, TypeOK, Places,
       DepSteps, Failures
<1>2. QED BY <1>1, OwnAlways, PTL

\* git_rcpco.sh:128-142: when the versions under test are about to be fetched,
\* every module is on its own branch, whatever its FETCH_HEAD has been through,
\* unless the fetches of that branch failed.
THEOREM BranchTaken == Spec => []OnOwnBranch
<1>1. OwnInv => OnOwnBranch
  BY DEF OwnInv, AtEnd
<1>2. QED BY <1>1, OwnAlways, PTL

-----------------------------------------------------------------------------
(* What a module that was asked for is left at.  The requests up to Passed     *)
(* have been checked out; deps is that of the last gerrit change among them,   *)
(* unless its fetch failed, however many branches have come after it.          *)

LastChange(c, i) ==
  /\ c \in 0 .. i /\ (c = 0 \/ Tests[c].ref \in Change)
  /\ \A l \in c + 1 .. i : Tests[l].ref \notin Change

LEMMA SinceIs == ASSUME NEW i \in Nat PROVE LastChange(Since(i), i)
<1> DEFINE C(x) == x = 0 \/ Tests[x].ref \in Change
           U == {u \in 0 .. i : C(i - u)}
           R == OpToRel(<, Nat)
<1>1. i \in U /\ U \subseteq Nat
  OBVIOUS
<1>2. \A x, y \in Nat : <<y, x>> \in R <=> y < x
  BY DEF OpToRel
<1>3. \E u \in U : \A v \in U : ~ (<<v, u>> \in R)
  <2> HIDE DEF U, R
  <2>1. IsWellFoundedOn(R, Nat)
    BY NatLessThanWellFounded DEF R
  <2>2. U # {}
    BY <1>1
  <2>3. QED BY <1>1, <2>1, <2>2, WFMin
<1>4. PICK u \in U : \A v \in U : ~ (v < u)
  BY <1>1, <1>2, <1>3
<1>5. LastChange(i - u, i)
  <2>1. i - u \in 0 .. i /\ C(i - u)
    BY <1>4
  <2>2. ASSUME NEW l \in i - u + 1 .. i, Tests[l].ref \in Change PROVE FALSE
    <3>1. i - l \in 0 .. i /\ i - (i - l) = l /\ i - l < u
      BY <1>4, <2>2
    <3>2. i - l \in U
      BY <2>2, <3>1
    <3>3. QED BY <1>4, <3>1, <3>2
  <2>3. QED BY <2>1, <2>2 DEF LastChange
<1>6. \E k \in 0 .. i : /\ k = 0 \/ Tests[k].ref \in Change
                        /\ \A l \in k + 1 .. i : Tests[l].ref \notin Change
  BY <1>5 DEF LastChange
<1>7. QED BY <1>6 DEF Since, LastChange

Passed == IF at.step \in DepSteps THEN at.test ELSE at.test - 1
From(i) == IF Since(i) = 0 THEN i ELSE Since(i)

DepsKnown ==
  LET c == Since(Passed) IN
    IF c = 0 THEN deps = <<>>
    ELSE <<Tests[c].sub, Tests[c].ref>> \in failed \/ deps = Depends[Tests[c].ref]

RequestInv ==
  /\ phase \notin {"tests", "done"} => at = [test |-> 1, step |-> "fetch"] /\ deps = <<>>
  /\ phase = "done" => at.test > Len(Tests)
  /\ at.step # "fetch" => at.test <= Len(Tests)
  /\ at.step = "head" =>
       LET t == Tests[at.test] IN fetched[t.sub] = t.ref \/ <<t.sub, t.ref>> \in failed
  /\ DepsKnown
  /\ at.step \in DepSteps =>
       \A j \in DOMAIN todo : \E l \in DOMAIN deps : todo[j] = deps[l]
  /\ \A i \in 1 .. Passed : KeptSince(i, From(i))

\* The two conditions of KeptSince.
AskedLast(i) == \A k \in i + 1 .. Len(Tests) : Tests[k].sub # Tests[i].sub
Undisturbed(i) ==
  \A k \in From(i) .. Len(Tests) :
    /\ <<Tests[k].sub, Tests[k].ref>> \notin failed
    /\ Tests[k].ref \in Change => Tests[i].sub \notin Named(Tests[k].ref)

LEMMA Kept ==
  ASSUME NEW i
  PROVE  KeptSince(i, From(i)) <=>
           (AskedLast(i) /\ Undisturbed(i) => head[Tests[i].sub] = Tests[i].ref)
BY DEF KeptSince, AskedLast, Undisturbed

LEMMA KeptOn ==
  ASSUME NEW i, KeptSince(i, From(i)), failed \subseteq failed',
         AskedLast(i) /\ Undisturbed(i) => head'[Tests[i].sub] = head[Tests[i].sub]
  PROVE  KeptSince(i, From(i))'
<1>1. Undisturbed(i)' => Undisturbed(i)
  BY DEF Undisturbed
<1>2. AskedLast(i) /\ Undisturbed(i) => head[Tests[i].sub] = Tests[i].ref
  BY Kept
<1>3. AskedLast(i) /\ Undisturbed(i)' => head'[Tests[i].sub] = Tests[i].ref
  BY <1>1, <1>2
<1>4. QED BY <1>3 DEF KeptSince, AskedLast, Undisturbed

LEMMA PassedRange ==
  ASSUME FetchTypes, RequestInv
  PROVE  /\ at.test \in Nat /\ Len(Tests) \in Nat /\ at.test \in 1 .. Len(Tests) + 1
         /\ Passed \in 0 .. Len(Tests)
<1>1. at.test \in 1 .. Len(Tests) + 1 /\ Len(Tests) \in Nat
  BY Values DEF FetchTypes, Places
<1>2. QED BY <1>1 DEF Passed, RequestInv, DepSteps

\* No dependency is looked at that would replace the version of a request which
\* nothing disturbs.
LEMMA NotReplaced ==
  ASSUME FetchTypes, RequestInv, at.step \in DepSteps,
         NEW i \in 1 .. Passed, Undisturbed(i), NEW j \in DOMAIN todo
  PROVE  todo[j].sub # Tests[i].sub
<1> DEFINE c == Since(Passed)
<1>0. Passed \in Nat /\ Passed <= Len(Tests) /\ Len(Tests) \in Nat /\ i \in Nat /\ i > 0
  BY PassedRange
<1>1. PICK l \in DOMAIN deps : todo[j] = deps[l]
  BY DEF RequestInv
<1>2. LastChange(c, Passed) /\ LastChange(Since(i), i)
  BY <1>0, SinceIs
<1>3. c # 0
  BY <1>1 DEF RequestInv, DepsKnown
<1>4. c \in From(i) .. Len(Tests) /\ Tests[c].ref \in Change
  <2>1. c \in 1 .. Passed /\ Tests[c].ref \in Change
    BY <1>0, <1>2, <1>3 DEF LastChange
  <2>2. CASE Since(i) = 0
    <3>1. \A x \in 1 .. i : Tests[x].ref \notin Change
      BY <1>2, <2>2 DEF LastChange
    <3>2. From(i) = i /\ ~ (c \in 1 .. i)
      BY <2>1, <2>2, <3>1 DEF From
    <3>3. QED BY <1>0, <2>1, <3>2
  <2>3. CASE Since(i) # 0
    <3>1. From(i) = Since(i) /\ Since(i) \in 1 .. i /\ Tests[Since(i)].ref \in Change
      BY <1>0, <1>2, <2>3 DEF From, LastChange
    <3>2. ~ (Since(i) \in c + 1 .. Passed)
      BY <1>2, <3>1 DEF LastChange
    <3>3. QED BY <1>0, <2>1, <3>1, <3>2
  <2>4. QED BY <2>2, <2>3
<1>5. <<Tests[c].sub, Tests[c].ref>> \notin failed /\ Tests[i].sub \notin Named(Tests[c].ref)
  BY <1>4 DEF Undisturbed
<1>6. deps = Depends[Tests[c].ref]
  BY <1>3, <1>5 DEF RequestInv, DepsKnown
<1>7. QED BY <1>1, <1>5, <1>6 DEF Named

LEMMA RequestInit == Init => RequestInv
<1> SUFFICES ASSUME Init PROVE RequestInv
  OBVIOUS
<1>1. at = [test |-> 1, step |-> "fetch"] /\ deps = <<>> /\ phase = "gitlab" /\ Passed = 0
  BY DEF Init, Passed, DepSteps
<1>2. Since(Passed) = 0
  BY <1>1, SinceIs DEF LastChange
<1>3. QED BY <1>1, <1>2 DEF RequestInv, DepsKnown, DepSteps

\* Before the versions under test.
LEMMA RequestBefore ==
  ASSUME OwnInv, RequestInv, [Next]_vars, phase \notin {"tests", "done"}
  PROVE  RequestInv'
<1>1. at' = at /\ deps' = deps /\ phase' # "done"
  <2>1. CASE Script
    BY <2>1 DEF Script, NoGitlab, Gitlabs, Start, Wait, TestFetch, TestHead, DependencyLookup,
       DependencyFetch, DependencyHead, TestNext, Finish, Testing, tests
  <2>2. ASSUME NEW m \in Mod, Job(m) PROVE at' = at /\ deps' = deps /\ phase' = phase
    BY <2>2 DEF Job, WriteExternal, FetchMap, FetchBranch, CheckoutHead, PutBack, Advance, tests
  <2>3. CASE Ended \/ UNCHANGED vars
    BY <2>3 DEF Ended, vars, tests
  <2>4. QED BY <2>1, <2>2, <2>3 DEF Next
<1>2. at' = [test |-> 1, step |-> "fetch"] /\ deps' = <<>>
  BY <1>1 DEF RequestInv
<1>3. Passed' = 0 /\ Since(0) = 0
  BY <1>2, SinceIs DEF Passed, LastChange, DepSteps
<1>4. QED BY <1>1, <1>2, <1>3 DEF RequestInv, DepsKnown, DepSteps

\* The steps of one request.
LEMMA RequestStep ==
  ASSUME OwnInv, OwnInv', RequestInv, Testings
  PROVE  RequestInv'
<1> DEFINE t == Tests[at.test]
<1>0. /\ FetchTypes /\ FetchTypes' /\ phase = "tests" /\ phase' = "tests"
      /\ at.test \in 1 .. Len(Tests) /\ Len(Tests) \in Nat
      /\ Passed \in 0 .. Len(Tests)
  <2>1. FetchTypes /\ FetchTypes' /\ phase = "tests" /\ phase' = "tests" /\ at.test <= Len(Tests)
    BY DEF OwnInv, Testings, TestFetch, TestHead, DependencyLookup, DependencyFetch,
       DependencyHead, TestNext, Testing
  <2>2. QED BY <2>1, PassedRange
<1>1. t.sub \in Mod /\ t.ref \in Ref /\ t.ref \in Version /\ t.ref # "none"
  <2>1. t \in Request
    BY <1>0, Values
  <2>2. QED BY <2>1, Values, RcpcoAssumption
<1>2. CASE TestFetch
  <2>1. /\ at.step = "fetch" /\ at'.step = "head" /\ at'.test = at.test
        /\ UNCHANGED <<head, deps>> /\ failed \subseteq failed'
        /\ fetched'[t.sub] = t.ref \/ <<t.sub, t.ref>> \in failed'
    BY <1>0, <1>1, <1>2 DEF TestFetch, Testing, Step, FetchTypes, Places
  <2>2. Passed' = Passed
    BY <2>1 DEF Passed, DepSteps
  <2>3. ASSUME NEW i \in 1 .. Passed PROVE KeptSince(i, From(i))'
    BY <2>1, KeptOn DEF RequestInv
  <2>4. DepsKnown'
    BY <2>1, <2>2 DEF RequestInv, DepsKnown
  <2>5. QED BY <1>0, <2>1, <2>2, <2>3, <2>4 DEF RequestInv, DepSteps
<1>3. CASE TestHead
  <2>1. /\ at.step = "head" /\ at'.step = "deps" /\ at'.test = at.test
        /\ failed' = failed /\ CheckoutFetchHead(t.sub)
        /\ deps' = DepsOf(t.ref, head'[t.sub]) /\ todo' = deps'
    BY <1>0, <1>3 DEF TestHead, Testing, Step, FetchTypes, Places
  <2>2. /\ Passed = at.test - 1 /\ Passed' = at.test
    BY <2>1 DEF Passed, DepSteps
  <2>3. /\ \A m \in Mod : m # t.sub => head'[m] = head[m]
        /\ head'[t.sub] = t.ref \/ <<t.sub, t.ref>> \in failed
    <3>1. fetched[t.sub] = t.ref \/ <<t.sub, t.ref>> \in failed
      BY <2>1 DEF RequestInv
    <3>2. head \in [Mod -> Version] /\ fetched[t.sub] \in Version
      BY <1>0, <1>1 DEF FetchTypes
    <3>3. QED BY <1>1, <2>1, <3>1, <3>2 DEF CheckoutFetchHead
  <2>4. ASSUME NEW i \in 1 .. Passed' PROVE KeptSince(i, From(i))'
    <3>1. CASE i = at.test
      <4>1. at.test \in From(i) .. Len(Tests)
        <5>1. LastChange(Since(i), i) /\ i \in Nat /\ i > 0
          BY <1>0, <3>1, SinceIs
        <5>2. From(i) \in 1 .. i
          BY <5>1 DEF From, LastChange
        <5>3. QED BY <1>0, <3>1, <5>2
      <4>2. Undisturbed(i)' => <<t.sub, t.ref>> \notin failed'
        BY <4>1 DEF Undisturbed
      <4>3. Undisturbed(i)' => head'[Tests[i].sub] = Tests[i].ref
        BY <2>1, <2>3, <3>1, <4>2
      <4>4. QED BY <4>3 DEF KeptSince, Undisturbed
    <3>2. CASE i # at.test
      <4>1. i \in 1 .. Passed /\ at.test \in i + 1 .. Len(Tests) /\ i \in 1 .. Len(Tests)
        BY <1>0, <2>2, <3>2
      <4>2. KeptSince(i, From(i))
        BY <4>1 DEF RequestInv
      <4>3. Tests[i].sub \in Mod
        BY <4>1, Values
      <4>4. AskedLast(i) => head'[Tests[i].sub] = head[Tests[i].sub]
        BY <2>3, <4>1, <4>3 DEF AskedLast
      <4>5. QED BY <2>1, <4>2, <4>4, KeptOn
    <3>3. QED BY <3>1, <3>2
  <2>5. DepsKnown'
    <3>1. LastChange(Since(at.test), at.test) /\ LastChange(Since(at.test - 1), at.test - 1)
      BY <1>0, SinceIs
    <3>2. CASE t.ref \in Change
      <4>1. Since(at.test) = at.test
        BY <1>0, <3>1, <3>2 DEF LastChange
      <4>2. deps' = Depends[head'[t.sub]]
        BY <2>1, <3>2 DEF DepsOf
      <4>3. QED BY <1>0, <2>1, <2>2, <2>3, <4>1, <4>2 DEF DepsKnown
    <3>3. CASE t.ref \notin Change
      <4>1. Since(at.test) = Since(at.test - 1)
        <5> DEFINE a == Since(at.test)
                   b == Since(at.test - 1)
        <5>1. /\ a \in 0 .. at.test /\ b \in 0 .. at.test - 1 /\ a # at.test
              /\ a # 0 => Tests[a].ref \in Change
              /\ b # 0 => Tests[b].ref \in Change
          BY <1>0, <3>1, <3>3 DEF LastChange
        <5>2. ~ (b \in a + 1 .. at.test) /\ ~ (a \in b + 1 .. at.test - 1)
          BY <1>0, <3>1, <5>1 DEF LastChange
        <5> HIDE DEF a, b
        <5>3. a = b
          BY <1>0, <5>1, <5>2
        <5>4. QED BY <5>3 DEF a, b
      <4>2. deps' = deps
        BY <2>1, <3>3 DEF DepsOf
      <4>3. QED BY <2>1, <2>2, <4>1, <4>2 DEF DepsKnown, RequestInv
    <3>4. QED BY <3>2, <3>3
  <2>6. QED BY <1>0, <2>1, <2>4, <2>5 DEF RequestInv, DepSteps
<1>4. CASE DependencyLookup \/ DependencyFetch
  <2>1. /\ at.step \in DepSteps /\ at'.step \in DepSteps /\ at'.test = at.test
        /\ UNCHANGED <<head, deps>> /\ failed \subseteq failed'
    BY <1>0, <1>4 DEF DependencyLookup, DependencyFetch, Testing, Step, FetchTypes, Places,
       DepSteps, repos
  <2>2. \A j \in DOMAIN todo' : \E i \in DOMAIN todo : todo'[j] = todo[i]
    <3>1. todo' = todo \/ (todo # <<>> /\ todo' = Tail(todo))
      BY <1>4 DEF DependencyLookup, DependencyFetch
    <3>2. todo \in Seq(Request)
      BY <1>0 DEF FetchTypes
    <3>3. todo # <<>> => \A j \in DOMAIN Tail(todo) : /\ j + 1 \in DOMAIN todo
                                                     /\ Tail(todo)[j] = todo[j + 1]
      BY <3>2
    <3>4. QED BY <3>1, <3>3
  <2>3. Passed' = Passed
    BY <2>1 DEF Passed
  <2>4. ASSUME NEW i \in 1 .. Passed PROVE KeptSince(i, From(i))'
    BY <2>1, KeptOn DEF RequestInv
  <2>5. DepsKnown'
    BY <2>1, <2>3 DEF RequestInv, DepsKnown
  <2>6. \A j \in DOMAIN todo' : \E l \in DOMAIN deps' : todo'[j] = deps'[l]
    BY <2>1, <2>2 DEF RequestInv
  <2>7. QED BY <1>0, <2>1, <2>3, <2>4, <2>5, <2>6 DEF RequestInv, DepSteps
<1>5. CASE DependencyHead
  <2>1. /\ at.step = "depHead" /\ at'.step = "deps" /\ at'.test = at.test
        /\ UNCHANGED <<failed, deps>> /\ CheckoutFetchHead(Head(todo).sub) /\ todo' = Tail(todo)
    BY <1>0, <1>5 DEF DependencyHead, Testing, Step, FetchTypes, Places
  <2>2. Passed' = Passed
    BY <2>1 DEF Passed, DepSteps
  <2>3. /\ todo \in Seq(Request) /\ todo # <<>> /\ 1 \in DOMAIN todo /\ Head(todo) = todo[1]
        /\ \A j \in DOMAIN Tail(todo) : j + 1 \in DOMAIN todo /\ Tail(todo)[j] = todo[j + 1]
    <3>1. todo \in Seq(Request) /\ todo # <<>>
      BY <1>0, <2>1 DEF FetchTypes
    <3>2. QED BY <3>1
  <2>4. \A m \in Mod : m # todo[1].sub => head'[m] = head[m]
    BY <1>0, <2>1, <2>3 DEF CheckoutFetchHead, FetchTypes
  <2>5. ASSUME NEW i \in 1 .. Passed PROVE KeptSince(i, From(i))'
    <3>1. Tests[i].sub \in Mod
      BY <1>0, Values
    <3>2. Undisturbed(i) => todo[1].sub # Tests[i].sub
      BY <1>0, <2>1, <2>3, NotReplaced DEF DepSteps
    <3>3. KeptSince(i, From(i))
      BY DEF RequestInv
    <3>4. QED BY <2>1, <2>4, <3>1, <3>2, <3>3, KeptOn
  <2>6. DepsKnown'
    BY <2>1, <2>2 DEF RequestInv, DepsKnown
  <2>7. \A j \in DOMAIN todo' : \E l \in DOMAIN deps' : todo'[j] = deps'[l]
    BY <2>1, <2>3 DEF RequestInv, DepSteps
  <2>8. QED BY <1>0, <2>1, <2>2, <2>5, <2>6, <2>7 DEF RequestInv, DepSteps
<1>6. CASE TestNext
  <2>1. /\ at.step = "deps" /\ at'.step = "fetch" /\ at'.test = at.test + 1
        /\ UNCHANGED <<head, failed, deps>>
    BY <1>6 DEF TestNext, Testing, repos
  <2>2. Passed' = Passed
    BY <1>0, <2>1 DEF Passed, DepSteps
  <2>3. ASSUME NEW i \in 1 .. Passed PROVE KeptSince(i, From(i))'
    BY <2>1, KeptOn DEF RequestInv
  <2>4. DepsKnown'
    BY <2>1, <2>2 DEF RequestInv, DepsKnown
  <2>5. QED BY <1>0, <2>1, <2>2, <2>3, <2>4 DEF RequestInv, DepSteps
<1>7. QED BY <1>2, <1>3, <1>4, <1>5, <1>6 DEF Testings

LEMMA RequestNext == OwnInv /\ RequestInv /\ [Next]_vars => RequestInv'
<1> SUFFICES ASSUME OwnInv, RequestInv, [Next]_vars PROVE RequestInv'
  OBVIOUS
<1>1. CASE phase \notin {"tests", "done"}
  BY <1>1, RequestBefore
<1>2. CASE phase \in {"tests", "done"}
  <2>1. CASE Testings
    BY <2>1, OwnStep, RequestStep
  <2>2. CASE Finish \/ Ended \/ UNCHANGED vars
    <3>1. /\ UNCHANGED <<at, deps, todo, head, fetched, failed>>
          /\ phase' \in {"tests", "done"}
          /\ phase' = "done" => phase = "done" \/ at.test > Len(Tests)
      BY <1>2, <2>2 DEF Finish, Ended, vars, repos, tests
    <3>2. QED BY <3>1 DEF RequestInv, DepsKnown, Passed, KeptSince
  <2>3. ~ (\E m \in Mod : Job(m)) /\ ~ (NoGitlab \/ Gitlabs \/ Start \/ Wait)
    <3>1. \A p \in Pool, m \in Mod : job[p][m] = "ended"
      BY <1>2 DEF OwnInv, AtEnd, PoolInv, PoolOrder, Pool
    <3>2. ~ (\E m \in Mod : Job(m))
      BY <3>1 DEF Job, WriteExternal, FetchMap, FetchBranch, CheckoutHead, PutBack, Pool
    <3>3. QED BY <1>2, <3>2 DEF NoGitlab, Gitlabs, Start, Wait, Pool
  <2>4. QED BY <2>1, <2>2, <2>3 DEF Next, Script, Testings
<1>3. QED BY <1>1, <1>2

\* git_rcpco.sh:171-194: for every list of requests and dependencies, and every
\* failure of a fetch, a request that no later one asks over ends as it was asked
\* for, unless a fetch failed or a change from the last one before it on names
\* its module as a dependency.
THEOREM RequestsLast == Spec => []RequestKept
<1>1. OwnInv /\ RequestInv => RequestKept
  <2> SUFFICES ASSUME OwnInv, RequestInv, phase = "done", NEW i \in DOMAIN Tests
               PROVE  KeptSince(i, From(i))
    BY DEF RequestKept, From
  <2>1. i \in 1 .. Len(Tests) /\ Len(Tests) \in Nat
    BY Values
  <2>2. at.test > Len(Tests) /\ at.step = "fetch" /\ at.test \in Nat
    BY PassedRange DEF RequestInv, OwnInv, FetchTypes, Places
  <2>3. i \in 1 .. Passed
    BY <2>1, <2>2 DEF Passed, DepSteps
  <2>4. QED BY <2>3 DEF RequestInv
<1>2. QED BY <1>1, RequestInit, RequestNext, OwnAlways, PTL DEF Spec

-----------------------------------------------------------------------------
(* The script and its jobs are never stuck, and come to an end *)

\* What the guards of the steps ask: of the job of a module, and of the script.
JobCan(p, m) ==
  \/ job[p][m] = "token"
  \/ p = "clone" /\ job[p][m] = "append"
  \/ p = "checkout" /\ job[p][m] \in {"fetchMap", "fetchBranch", "head"}

ScriptCan ==
  \/ phase = "gitlab"
  \/ phase \in Pool /\ next <= NMod /\ tokens > 0
  \/ phase \in Pool /\ next > NMod /\ \A m \in Mod : job[phase][m] = "ended"
  \/ phase = "tests" /\ (at.step \in DepSteps \ {"deps"} => todo # <<>>)

\* `read -u6` waits for a token only while some job is to put one back, and
\* `wait` only for a job that can go on.
NotStuck ==
  phase \in {"done", "exited"} \/ ScriptCan \/ \E p \in Pool, m \in Mod : JobCan(p, m)

LEMMA OwnNotStuck == OwnInv => NotStuck
<1> SUFFICES ASSUME OwnInv, phase \in Pool, \A p \in Pool, m \in Mod : ~ JobCan(p, m)
             PROVE  ScriptCan
  BY DEF NotStuck, ScriptCan, OwnInv, PoolInv, PoolType, FetchTypes, Phase
<1>1. \A p \in Pool, m \in Mod : job[p][m] \in {"none", "ended"}
  BY DEF OwnInv, PoolInv, PoolType, Written, JobOwn, JobCan, Pool, Working
<1>2. tokens = Thread /\ tokens > 0
  <2>1. Holding = {}
    BY <1>1 DEF Holding, Working
  <2>2. Cardinality(Holding) = 0
    BY <2>1, FS_EmptySet
  <2>3. QED BY <2>2, RcpcoAssumption DEF OwnInv, PoolInv, PoolType, TokenBalance
<1>3. CASE next <= NMod
  BY <1>2, <1>3 DEF ScriptCan
<1>4. CASE next > NMod
  <2>1. \A m \in Mod : m < next
    BY <1>4, Numbers DEF OwnInv, PoolInv, PoolType, Mod
  <2>2. \A m \in Mod : job[phase][m] # "none"
    BY <2>1 DEF OwnInv, PoolInv, PoolOrder, Pool
  <2>3. QED BY <1>1, <1>4, <2>2 DEF ScriptCan
<1>5. QED BY <1>3, <1>4, Numbers DEF OwnInv, PoolInv, PoolType

\* git_rcpco.sh:76-124, 160-168: with any number of modules and tokens, there
\* is always a step that the script or one of its jobs can take, until the
\* script has ended.
THEOREM NeverStuck == Spec => []NotStuck
BY OwnAlways, OwnNotStuck, PTL

\* What is left to do, the most significant first: the stages of the script,
\* the steps of the jobs, the requests, where the one at hand is, its
\* dependencies and where the first of them is, and the tries.
Stage ==
  CASE phase = "gitlab" -> 4
    [] phase = "clone" -> 3
    [] phase = "checkout" -> 2
    [] phase = "tests" -> 1
    [] phase \in {"done", "exited"} -> 0

StepsFrom(j) ==
  CASE j = "none" -> 5
    [] j = "fetchMap" -> 4
    [] j = "fetchBranch" -> 3
    [] j \in {"append", "head"} -> 2
    [] j = "token" -> 1
    [] j = "ended" -> 0

JobSteps == {x \in (Pool \X Mod) \X (1 .. 5) : x[2] <= StepsFrom(job[x[1][1]][x[1][2]])}
Place == CASE at.step = "fetch" -> 2 [] at.step = "head" -> 1 [] at.step \in DepSteps -> 0
Fork == CASE at.step = "depHead" -> 0 [] at.step \in {"depFetch", "depPlain"} -> 1 [] OTHER -> 2
TriesLeft == {x \in ({Main} \cup Mod) \X (1 .. MaxRetry) : tries[x[1]] < x[2]}

Variant == <<Stage, Cardinality(JobSteps), Len(Tests) + 1 - at.test, Place, Len(todo), Fork,
             Cardinality(TriesLeft)>>

\* The lexicographical order of seven numbers, in which nothing descends for ever.
Smaller == LexProductOrdering(OpToRel(<, Nat), Nat, 7)

LEMMA SmallerWellFounded == IsWellFoundedOn(Smaller, [1 .. 7 -> Nat])
<1>1. 7 \in Nat
  OBVIOUS
<1>2. QED BY <1>1, NatLessThanWellFounded, WFLexProductOrdering DEF Smaller

LEMMA SmallerIf ==
  ASSUME NEW v \in [1 .. 7 -> Nat], NEW w \in [1 .. 7 -> Nat], NEW j \in 1 .. 7,
         \A i \in 1 .. (j - 1) : v[i] = w[i], v[j] < w[j]
  PROVE  <<v, w>> \in Smaller
<1>1. <<v[j], w[j]>> \in OpToRel(<, Nat)
  BY DEF OpToRel
<1>2. QED BY <1>1 DEF Smaller, LexProductOrdering

LEMMA PoolModFinite == IsFiniteSet(Pool \X Mod) /\ IsFiniteSet({Main} \cup Mod)
<1>1. IsFiniteSet(Mod)
  BY Numbers, FS_Interval DEF Mod
<1>2. IsFiniteSet({Main} \cup Mod)
  BY <1>1, FS_AddElement
<1>3. IsFiniteSet(Pool)
  <2>1. IsFiniteSet({} \cup {"clone"})
    BY FS_EmptySet, FS_AddElement
  <2>2. IsFiniteSet(({} \cup {"clone"}) \cup {"checkout"})
    BY <2>1, FS_AddElement
  <2>3. Pool = ({} \cup {"clone"}) \cup {"checkout"}
    BY DEF Pool
  <2>4. QED BY <2>2, <2>3
<1>4. QED BY <1>1, <1>2, <1>3, FS_Product

StepsOK ==
  /\ IsFiniteSet(JobSteps) /\ Cardinality(JobSteps) \in Nat
  /\ IsFiniteSet(TriesLeft) /\ Cardinality(TriesLeft) \in Nat

LEMMA StepsFinite == StepsOK
<1>1. IsFiniteSet(1 .. 5) /\ IsFiniteSet(1 .. MaxRetry)
  <2>1. \A n \in Nat : IsFiniteSet(1 .. n)
    BY FS_Interval
  <2>2. 5 \in Nat /\ MaxRetry \in Nat
    BY Values
  <2>3. QED BY <2>1, <2>2
<1>2. /\ IsFiniteSet((Pool \X Mod) \X (1 .. 5))
      /\ IsFiniteSet(({Main} \cup Mod) \X (1 .. MaxRetry))
  BY <1>1, PoolModFinite, FS_Product
<1>3. /\ JobSteps \subseteq (Pool \X Mod) \X (1 .. 5)
      /\ TriesLeft \subseteq ({Main} \cup Mod) \X (1 .. MaxRetry)
  BY DEF JobSteps, TriesLeft
<1>4. QED BY <1>2, <1>3, FS_Subset, FS_CardinalityType DEF StepsOK

LEMMA StepsFiniteNext == StepsOK'
BY StepsFinite, PTL

VariantOK ==
  /\ Stage \in Nat /\ Len(Tests) + 1 - at.test \in Nat /\ Place \in Nat /\ Len(todo) \in Nat
  /\ Fork \in Nat /\ Variant \in [1 .. 7 -> Nat]

LEMMA VariantType == OwnInv => VariantOK
<1> SUFFICES ASSUME OwnInv
             PROVE  VariantOK
  OBVIOUS
<1>1. Stage \in Nat
  BY DEF Stage, OwnInv, PoolInv, PoolType, Phase, Pool
<1>2. at.test \in 1 .. Len(Tests) + 1 /\ at.step \in {"fetch", "head"} \cup DepSteps
      /\ Len(todo) \in Nat
  BY DEF OwnInv, FetchTypes, Places
<1>3. Len(Tests) + 1 - at.test \in Nat
  BY <1>2, Values
<1>4. Place \in Nat /\ Fork \in Nat
  BY <1>2 DEF Place, Fork, DepSteps
<1>5. QED BY <1>1, <1>2, <1>3, <1>4, StepsFinite DEF Variant, VariantOK, StepsOK

LEMMA VariantTypeNext == OwnInv' => VariantOK'
BY VariantType, PTL

\* A job that moves on has less before it.
LEMMA JobLess ==
  ASSUME PoolType, NEW p \in Pool, NEW m \in Mod, NEW w \in Working \cup {"none", "ended"},
         StepsFrom(w) < StepsFrom(job[p][m]), job' = [job EXCEPT ![p][m] = w]
  PROVE  Cardinality(JobSteps') < Cardinality(JobSteps)
<1> DEFINE x == <<<<p, m>>, StepsFrom(job[p][m])>>
<1>1. job'[p][m] = w
      /\ \A h \in Pool \X Mod : h # <<p, m>> => job'[h[1]][h[2]] = job[h[1]][h[2]]
  BY DEF PoolType
<1>2. StepsFrom(job[p][m]) \in 1 .. 5 /\ StepsFrom(w) \in 0 .. 5
  <2>1. job[p][m] \in Working \cup {"none", "ended"}
    BY DEF PoolType
  <2>2. \A j \in Working \cup {"none", "ended"} : StepsFrom(j) \in 0 .. 5
    BY DEF StepsFrom, Working
  <2>3. QED BY <2>1, <2>2
<1>3. x \in JobSteps
  BY <1>2 DEF JobSteps
<1>4. x \notin JobSteps'
  BY <1>1, <1>2 DEF JobSteps
<1>5. JobSteps' \subseteq JobSteps
  <2> SUFFICES ASSUME NEW h \in Pool \X Mod, NEW k \in 1 .. 5,
                      k <= StepsFrom(job'[h[1]][h[2]])
               PROVE  k <= StepsFrom(job[h[1]][h[2]])
    BY DEF JobSteps
  <2>1. CASE h = <<p, m>>
    BY <1>1, <1>2, <2>1
  <2>2. CASE h # <<p, m>>
    BY <1>1, <2>2
  <2>3. QED BY <2>1, <2>2
<1>6. JobSteps' # JobSteps
  BY <1>3, <1>4
<1>7. QED BY <1>5, <1>6, StepsFinite, StepsFiniteNext, FS_Subset DEF StepsOK

\* A fetch that is tried again has fewer tries left.
LEMMA TriesLess ==
  ASSUME FetchTypes, NEW p \in {Main} \cup Mod, FetchAgain(p)
  PROVE  Cardinality(TriesLeft') < Cardinality(TriesLeft)
<1> DEFINE x == <<p, tries[p] + 1>>
<1>1. /\ tries[p] \in Nat /\ tries[p] + 1 \in 1 .. MaxRetry /\ tries'[p] = tries[p] + 1
      /\ \A q \in {Main} \cup Mod : q # p => tries'[q] = tries[q]
  BY Values DEF FetchTypes, FetchAgain
<1>2. x \in TriesLeft /\ x \notin TriesLeft'
  BY <1>1 DEF TriesLeft
<1>3. TriesLeft' \subseteq TriesLeft
  <2> SUFFICES ASSUME NEW q \in {Main} \cup Mod, NEW k \in 1 .. MaxRetry, tries'[q] < k
               PROVE  tries[q] < k
    BY DEF TriesLeft
  <2>1. QED BY <1>1, Values
<1>4. TriesLeft' # TriesLeft
  BY <1>2
<1>5. QED BY <1>3, <1>4, StepsFinite, StepsFiniteNext, FS_Subset DEF StepsOK

Work == Script \/ \E m \in Mod : Job(m)

\* One of the seven numbers is less, and none before it has changed.
LEMMA SomeLess ==
  ASSUME OwnInv, OwnInv'
  PROVE  /\ Stage' < Stage => <<Variant', Variant>> \in Smaller
         /\ /\ Stage' = Stage /\ Cardinality(JobSteps') < Cardinality(JobSteps)
            => <<Variant', Variant>> \in Smaller
         /\ /\ Stage' = Stage /\ JobSteps' = JobSteps
            /\ at'.test = at.test + 1
            => <<Variant', Variant>> \in Smaller
         /\ /\ Stage' = Stage /\ JobSteps' = JobSteps /\ at'.test = at.test
            /\ Place' < Place
            => <<Variant', Variant>> \in Smaller
         /\ /\ Stage' = Stage /\ JobSteps' = JobSteps /\ at'.test = at.test /\ Place' = Place
            /\ Len(todo') < Len(todo)
            => <<Variant', Variant>> \in Smaller
         /\ /\ Stage' = Stage /\ JobSteps' = JobSteps /\ at'.test = at.test /\ Place' = Place
            /\ todo' = todo /\ Fork' < Fork
            => <<Variant', Variant>> \in Smaller
         /\ /\ Stage' = Stage /\ JobSteps' = JobSteps /\ UNCHANGED <<at, todo>>
            /\ Cardinality(TriesLeft') < Cardinality(TriesLeft)
            => <<Variant', Variant>> \in Smaller
<1>1. /\ Variant \in [1 .. 7 -> Nat] /\ Variant' \in [1 .. 7 -> Nat]
      /\ at.test \in Nat /\ at'.test \in Nat
  <2>1. Variant \in [1 .. 7 -> Nat] /\ Variant' \in [1 .. 7 -> Nat]
    BY VariantType, VariantTypeNext DEF VariantOK
  <2>2. at.test \in Nat /\ at'.test \in Nat
    BY Values DEF OwnInv, FetchTypes, Places
  <2>3. QED BY <2>1, <2>2
<1> DEFINE Less(j) == (\A i \in 1 .. (j - 1) : Variant'[i] = Variant[i]) /\ Variant'[j] < Variant[j]
<1>2. \A j \in 1 .. 7 : Less(j) => <<Variant', Variant>> \in Smaller
  BY <1>1, SmallerIf
<1>3. /\ Variant[1] = Stage /\ Variant[2] = Cardinality(JobSteps)
      /\ Variant[3] = Len(Tests) + 1 - at.test /\ Variant[4] = Place /\ Variant[5] = Len(todo)
      /\ Variant[6] = Fork /\ Variant[7] = Cardinality(TriesLeft)
      /\ Variant'[1] = Stage' /\ Variant'[2] = Cardinality(JobSteps')
      /\ Variant'[3] = Len(Tests) + 1 - at'.test /\ Variant'[4] = Place'
      /\ Variant'[5] = Len(todo') /\ Variant'[6] = Fork' /\ Variant'[7] = Cardinality(TriesLeft')
  BY DEF Variant
<1>4. Stage' < Stage => Less(1)
  BY <1>3
<1>5. Stage' = Stage /\ Cardinality(JobSteps') < Cardinality(JobSteps) => Less(2)
  BY <1>3
<1>6. Stage' = Stage /\ JobSteps' = JobSteps /\ at'.test = at.test + 1 => Less(3)
  <2> SUFFICES ASSUME Stage' = Stage, JobSteps' = JobSteps, at'.test = at.test + 1
               PROVE  Less(3)
    OBVIOUS
  <2>1. \A i \in 1 .. 2 : Variant'[i] = Variant[i]
    BY <1>3
  <2>2. Variant'[3] < Variant[3]
    <3>1. Len(Tests) \in Nat
      BY Values
    <3>2. \A k, l \in Nat : k + 1 - (l + 1) < k + 1 - l
      OBVIOUS
    <3>3. QED BY <1>1, <1>3, <3>1, <3>2
  <2>3. QED BY <2>1, <2>2
<1>7. Stage' = Stage /\ JobSteps' = JobSteps /\ at'.test = at.test /\ Place' < Place => Less(4)
  BY <1>3
<1>8. /\ Stage' = Stage /\ JobSteps' = JobSteps /\ at'.test = at.test /\ Place' = Place
      /\ Len(todo') < Len(todo)
      => Less(5)
  BY <1>3
<1>9. /\ Stage' = Stage /\ JobSteps' = JobSteps /\ at'.test = at.test /\ Place' = Place
      /\ todo' = todo /\ Fork' < Fork
      => Less(6)
  BY <1>3
<1>10. /\ Stage' = Stage /\ JobSteps' = JobSteps /\ UNCHANGED <<at, todo>>
       /\ Cardinality(TriesLeft') < Cardinality(TriesLeft)
       => Less(7)
  <2> SUFFICES ASSUME Stage' = Stage, JobSteps' = JobSteps, UNCHANGED <<at, todo>>,
                      Cardinality(TriesLeft') < Cardinality(TriesLeft)
               PROVE  Less(7)
    OBVIOUS
  <2>1. Place' = Place /\ Fork' = Fork
    BY DEF Place, Fork
  <2>2. QED BY <2>1, <1>3
<1> HIDE DEF Less
<1>11. QED BY <1>2, <1>4, <1>5, <1>6, <1>7, <1>8, <1>9, <1>10

LEMMA ScriptDescends ==
  ASSUME OwnInv, OwnInv', Script
  PROVE  <<Variant', Variant>> \in Smaller
<1>1. /\ PoolType /\ FetchTypes
      /\ at.test \in Nat /\ at \in Places /\ todo \in Seq(Request)
  BY Values DEF OwnInv, PoolInv, FetchTypes, Places
<1>2. /\ phase' = phase => Stage' = Stage
      /\ job' = job => JobSteps' = JobSteps
  BY DEF Stage, JobSteps
<1>3. CASE NoGitlab \/ Wait \/ Finish
  <2>1. Stage' < Stage
    BY <1>3 DEF NoGitlab, Wait, Finish, Stage, Pool
  <2>2. QED BY <2>1, SomeLess
<1>4. CASE Gitlabs
  <2>1. CASE phase' = "exited"
    <3>1. Stage' < Stage
      BY <1>4, <2>1 DEF Gitlabs, Stage
    <3>2. QED BY <3>1, SomeLess
  <2>2. CASE FetchAgain(Main) /\ phase' = phase
    <3>1. UNCHANGED <<job, at, todo>>
      BY <1>4 DEF Gitlabs, pools, tests
    <3>2. Cardinality(TriesLeft') < Cardinality(TriesLeft)
      BY <1>1, <2>2, TriesLess
    <3>3. QED BY <1>2, <2>2, <3>1, <3>2, SomeLess
  <2>3. QED BY <1>4, <2>1, <2>2 DEF Gitlabs
<1>5. CASE Start
  <2> DEFINE w == IF phase = "clone" THEN "append" ELSE "fetchMap"
  <2>1. /\ phase \in Pool /\ phase' = phase /\ next \in Mod
        /\ job' = [job EXCEPT ![phase][next] = w]
    BY <1>1, <1>5, Numbers DEF Start, PoolType, Mod
  <2>2. job[phase][next] = "none"
    BY <2>1 DEF OwnInv, PoolInv, PoolType, PoolOrder, Pool, Mod
  <2>3. w \in Working /\ StepsFrom(w) < StepsFrom("none")
    BY DEF Working, StepsFrom
  <2> HIDE DEF w
  <2>4. Cardinality(JobSteps') < Cardinality(JobSteps)
    BY <1>1, <2>1, <2>2, <2>3, JobLess
  <2>5. QED BY <1>2, <2>1, <2>4, SomeLess
<1>6. CASE Testings
  <2>1. phase' = phase /\ job' = job
    BY <1>6 DEF Testings, TestFetch, TestHead, DependencyLookup, DependencyFetch,
       DependencyHead, TestNext, pools
  <2>2. Stage' = Stage /\ JobSteps' = JobSteps
    BY <1>2, <2>1
  <2>3. CASE TestFetch \/ TestHead
    <3>1. at'.test = at.test /\ Place' < Place
      BY <1>1, <2>3 DEF TestFetch, TestHead, Testing, Step, Place, Places, DepSteps
    <3>2. QED BY <2>2, <3>1, SomeLess
  <2>4. CASE DependencyLookup
    <3>1. at.step = "deps" /\ todo # <<>>
      BY <2>4 DEF DependencyLookup, Testing
    <3>2. CASE UNCHANGED todo /\ (Step("depFetch") \/ Step("depPlain"))
      <4>1. at'.test = at.test /\ Place' = Place /\ Fork' < Fork
        BY <1>1, <3>1, <3>2 DEF Step, Place, Fork, Places, DepSteps
      <4>2. QED BY <2>2, <3>2, <4>1, SomeLess
    <3>3. CASE todo' = Tail(todo) /\ at' = at
      <4>1. Len(todo') < Len(todo)
        BY <1>1, <3>1, <3>3
      <4>2. Place' = Place
        BY <3>3 DEF Place
      <4>3. QED BY <2>2, <3>3, <4>1, <4>2, SomeLess
    <3>4. QED BY <2>4, <3>2, <3>3 DEF DependencyLookup
  <2>5. CASE DependencyFetch
    <3>1. CASE Step("depHead")
      <4>1. at'.test = at.test /\ Place' = Place /\ todo' = todo /\ Fork' < Fork
        BY <1>1, <2>5, <3>1 DEF DependencyFetch, Testing, Step, Place, Fork, Places, DepSteps
      <4>2. QED BY <2>2, <4>1, SomeLess
    <3>2. CASE FetchAgain(Main) /\ at' = at
      <4>1. Cardinality(TriesLeft') < Cardinality(TriesLeft)
        BY <1>1, <3>2, TriesLess
      <4>2. todo' = todo
        BY <2>5 DEF DependencyFetch
      <4>3. QED BY <2>2, <3>2, <4>1, <4>2, SomeLess
    <3>3. QED BY <2>5, <3>1, <3>2 DEF DependencyFetch
  <2>6. CASE DependencyHead
    <3>1. at'.test = at.test /\ Place' = Place
      BY <1>1, <2>6 DEF DependencyHead, Testing, Step, Place, Places, DepSteps
    <3>2. todo # <<>> /\ todo' = Tail(todo)
      BY <1>1, <2>6 DEF DependencyHead, Testing, FetchTypes, DepSteps
    <3>3. Len(todo') < Len(todo)
      BY <1>1, <3>2
    <3>4. QED BY <2>2, <3>1, <3>3, SomeLess
  <2>7. CASE TestNext
    BY <2>2, <2>7, SomeLess DEF TestNext
  <2>8. QED BY <1>6, <2>3, <2>4, <2>5, <2>6, <2>7 DEF Testings
<1>7. QED BY <1>3, <1>4, <1>5, <1>6 DEF Script, Testings

LEMMA JobDescends ==
  ASSUME OwnInv, OwnInv', NEW m \in Mod, Job(m)
  PROVE  <<Variant', Variant>> \in Smaller
<1>1. PoolType /\ FetchTypes
  BY DEF OwnInv, PoolInv
<1>2. phase' = phase => Stage' = Stage
  BY DEF Stage
<1>3. ASSUME NEW p \in Pool, NEW w \in Working \cup {"none", "ended"},
             StepsFrom(w) < StepsFrom(job[p][m]), job' = [job EXCEPT ![p][m] = w], phase' = phase
      PROVE  <<Variant', Variant>> \in Smaller
  BY <1>1, <1>2, <1>3, JobLess, SomeLess
<1>4. ASSUME NEW w \in Working, w = job["checkout"][m], Advance("checkout", m, w), FetchAgain(m)
      PROVE  <<Variant', Variant>> \in Smaller
  <2>1. job' = job /\ UNCHANGED <<phase, at, todo>>
    BY <1>1, <1>4 DEF Advance, PoolType, Pool, tests
  <2>2. JobSteps' = JobSteps
    BY <2>1 DEF JobSteps
  <2>3. Cardinality(TriesLeft') < Cardinality(TriesLeft)
    BY <1>1, <1>4, TriesLess
  <2>4. QED BY <1>2, <2>1, <2>2, <2>3, SomeLess
<1>5. /\ StepsFrom("ended") < StepsFrom("token")
      /\ StepsFrom("token") < StepsFrom("append") /\ StepsFrom("token") < StepsFrom("head")
      /\ StepsFrom("head") < StepsFrom("fetchBranch")
      /\ StepsFrom("fetchBranch") < StepsFrom("fetchMap")
      /\ {"token", "head", "fetchBranch", "fetchMap"} \subseteq Working
      /\ {"clone", "checkout"} = Pool
  BY DEF StepsFrom, Working, Pool
<1>6. CASE WriteExternal(m)
  BY <1>3, <1>5, <1>6 DEF WriteExternal, Advance
<1>7. CASE FetchMap(m)
  <2>1. job["checkout"][m] = "fetchMap"
        /\ \/ Advance("checkout", m, "fetchBranch")
           \/ Advance("checkout", m, "fetchMap") /\ FetchAgain(m)
    BY <1>7 DEF FetchMap
  <2>2. CASE Advance("checkout", m, "fetchBranch")
    BY <1>3, <1>5, <2>1, <2>2 DEF Advance
  <2>3. QED BY <1>4, <1>5, <2>1, <2>2
<1>8. CASE FetchBranch(m)
  <2>1. job["checkout"][m] = "fetchBranch"
        /\ \/ Advance("checkout", m, "head")
           \/ Advance("checkout", m, "fetchBranch") /\ FetchAgain(m)
    BY <1>8 DEF FetchBranch
  <2>2. CASE Advance("checkout", m, "head")
    BY <1>3, <1>5, <2>1, <2>2 DEF Advance
  <2>3. QED BY <1>4, <1>5, <2>1, <2>2
<1>9. CASE CheckoutHead(m)
  BY <1>3, <1>5, <1>9 DEF CheckoutHead, Advance
<1>10. ASSUME NEW p \in Pool, PutBack(p, m) PROVE <<Variant', Variant>> \in Smaller
  BY <1>3, <1>5, <1>10 DEF PutBack
<1>11. QED BY <1>6, <1>7, <1>8, <1>9, <1>10 DEF Job

\* git_rcpco.sh:47-194: every step, of the script or of one of its jobs and in
\* whatever order they run, leaves less to do in an order in which nothing
\* descends for ever; with NeverStuck, the script comes to its end.
THEOREM Descent ==
  /\ IsWellFoundedOn(Smaller, [1 .. 7 -> Nat])
  /\ Spec => [][Work => <<Variant', Variant>> \in Smaller]_vars
<1>1. OwnInv /\ OwnInv' /\ Work => <<Variant', Variant>> \in Smaller
  BY ScriptDescends, JobDescends DEF Work
<1>2. Spec => [][Work => <<Variant', Variant>> \in Smaller]_vars
  BY <1>1, OwnInit, OwnStep, PTL DEF Spec
<1>3. QED BY <1>2, SmallerWellFounded
=============================================================================
