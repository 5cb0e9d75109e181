--------------------------- MODULE PickDeviceProofs ----------------------------
(***************************************************************************)
(* select_pdev for any list of devices: create_queues' answer serves at    *)
(* every point, and what is returned is suitable, with its own infos.      *)
(***************************************************************************)
EXTENDS PickDevice, SequenceTheorems, FiniteSetTheorems, NatLemmas, TLAPS

\* The Surface_info of a device after each of the checks that fill it in.
WithCaps(d)  == Filled("caps", d, NoInfo)
WithFmt(d)   == Filled("fmts", d, WithCaps(d))
WithModes(d) == Filled("prmodes", d, WithFmt(d))

Shape ==
    /\ devs \in Seq(Devices)
    /\ pc \in {"enumerate", "version", "exts", "features", "caps", "fmts", "prmodes",
               "queues", "done"}
    /\ i \in 1 .. Len(devs) + 1
    /\ fam \in Nat \ {0}
    /\ have_q \subseteq Queue_name
    /\ best_score \in {0, 1}
    /\ pc = "enumerate" => i = 1 /\ best_score = 0

\* What the checks up to pc have found.
Passed == i <= Len(devs) =>
    /\ pc \in {"exts", "features", "caps", "fmts", "prmodes", "queues"}
        => Passes("version", devs[i])
    /\ pc \in {"features", "caps", "fmts", "prmodes", "queues"} => Passes("exts", devs[i])
    /\ pc \in {"caps", "fmts", "prmodes", "queues"} => Passes("features", devs[i])
    /\ pc = "queues" => Passes("prmodes", devs[i])

Info == i <= Len(devs) =>
    /\ pc \in {"enumerate", "version", "exts", "features", "caps"} => dev_srfinfo = NoInfo
    /\ pc = "fmts" => dev_srfinfo = WithCaps(devs[i])
    /\ pc = "prmodes" => dev_srfinfo = WithFmt(devs[i])
    /\ pc = "queues" => dev_srfinfo = WithModes(devs[i])

\* The families seen so far: those chosen serve the queues found, one queue at
\* least is due to each, and none of them can be a queue that is still missing.
Queues ==
    /\ dev_qs \in [creates : Seq(1 .. fam - 1), by_q : [Queue_name -> Nat]]
    /\ Len(dev_qs.creates) <= IF have_q = {} THEN 0 ELSE IF have_q = Queue_name THEN 2 ELSE 1
    /\ \A m, n \in DOMAIN dev_qs.creates : m < n => dev_qs.creates[m] < dev_qs.creates[n]
    /\ \A n \in DOMAIN dev_qs.creates : \E q \in have_q : dev_qs.by_q[q] = n
    /\ \A q \in have_q : dev_qs.by_q[q] \in DOMAIN dev_qs.creates
    /\ i <= Len(devs) =>
        /\ fam <= Len(devs[i].fams) + 1
        /\ \A q \in have_q : q \in devs[i].fams[dev_qs.creates[dev_qs.by_q[q]]]
        /\ \A q \in Queue_name \ have_q, f \in 1 .. fam - 1 : q \notin devs[i].fams[f]

Rated ==
    /\ best_score = 0 => \A n \in 1 .. i - 1 : ~Suitable(devs[n])
    /\ best_score = 1 =>
        /\ best_dev \in DOMAIN devs
        /\ Suitable(devs[best_dev])
        /\ Serves(qs, Queue_name, devs[best_dev])
        /\ Offered(srfinfo, devs[best_dev])
    /\ ret # 0 => pc = "done" /\ best_score = 1 /\ ret = best_dev
    /\ pc = "done" /\ i > Len(devs) /\ ret = 0 => best_score = 0

IInv == Shape /\ Passed /\ Info /\ Queues /\ Rated

-----------------------------------------------------------------------------
(* Which format check_srf_fmts takes.                                      *)

Format == [format : STRING, colorSpace : STRING]

LEMMA BestIsBest ==
    ASSUME NEW fmts \in Seq(Format), fmts # <<>>
    PROVE  /\ Best(fmts) \in DOMAIN fmts
           /\ (\E n \in DOMAIN fmts : fmts[n] = preferred) => fmts[Best(fmts)] = preferred
           /\ (\E n \in DOMAIN fmts : fmts[n].colorSpace = preferred.colorSpace)
                => fmts[Best(fmts)].colorSpace = preferred.colorSpace
<1> DEFINE full == {n \in DOMAIN fmts : fmts[n] = preferred}
           near == {n \in DOMAIN fmts : fmts[n].colorSpace = preferred.colorSpace}
<1>1. DOMAIN fmts = 1 .. Len(fmts) /\ Len(fmts) \in Nat /\ 1 \in DOMAIN fmts
  OBVIOUS
<1>2. full \subseteq near /\ full \subseteq Nat /\ near \subseteq 0 .. Len(fmts)
  BY <1>1
<1>3. CASE full # {}
  <2>1. Best(fmts) = CHOOSE n \in full : \A m \in full : n <= m
    BY <1>3 DEF Best
  <2>2. \E n \in full : \A m \in full : n <= m
    <3> HIDE DEF full
    <3> QED
      BY <1>2, <1>3, Least
  <2>3. Best(fmts) \in full
    BY <2>1, <2>2
  <2> QED
    BY <2>3
<1>4. CASE full = {} /\ near # {}
  <2>1. Best(fmts) = CHOOSE n \in near : \A m \in near : n >= m
    BY <1>4 DEF Best
  <2>2. \E n \in near : \A m \in near : n >= m
    <3> HIDE DEF near, full
    <3> QED
      BY <1>1, <1>2, <1>4, Greatest
  <2>3. Best(fmts) \in near
    BY <2>1, <2>2
  <2> QED
    BY <2>3, <1>4
<1>5. CASE full = {} /\ near = {}
  <2>1. Best(fmts) = 1
    BY <1>5 DEF Best
  <2> QED
    BY <2>1, <1>1, <1>5
<1> QED
  BY <1>3, <1>4, <1>5

-----------------------------------------------------------------------------
(* What the swapchain is asked for.                                        *)

LEMMA Clamped ==
    ASSUME NEW low \in Nat, NEW x \in Nat, NEW high \in Nat, low <= high
    PROVE  LET y == clamp_1D(low, x, high)
           IN  y \in Nat /\ low <= y /\ y <= high /\ (y < x => y = high) /\ (y > x => y = low)
  BY DEF clamp_1D

LEMMA ModesFilled ==
    ASSUME NEW d
    PROVE  WithModes(d) =
              [nimages |-> clamp_1D(d.caps.minImageCount, 3,
                                    IF d.caps.maxImageCount = 0 THEN UINT32_MAX
                                                                ELSE d.caps.maxImageCount),
               extent |-> clamp_2D(d.caps.minImageExtent, d.caps.currentExtent,
                                   d.caps.maxImageExtent),
               fmt |-> d.fmts[Best(d.fmts)],
               prmode |-> "MAILBOX"]
  BY DEF WithModes, WithFmt, WithCaps, Filled, NoInfo

LEMMA ModesOffered ==
    ASSUME NEW d \in Devices, Passes("prmodes", d)
    PROVE  Offered(WithModes(d), d)
<1> DEFINE high == IF d.caps.maxImageCount = 0 THEN UINT32_MAX ELSE d.caps.maxImageCount
           info == WithModes(d)
<1> USE UINT32_MAXAssumption
<1>1. /\ d.fmts \in Seq(Format) /\ d.fmts # <<>>
      /\ d.caps.minImageCount \in uint32 /\ d.caps.maxImageCount \in uint32
      /\ d.caps.minImageExtent \in Extents /\ d.caps.maxImageExtent \in Extents
      /\ d.caps.currentExtent \in Extents
      /\ d.caps.maxImageCount # 0 => d.caps.minImageCount <= d.caps.maxImageCount
      /\ d.caps.minImageExtent.width <= d.caps.maxImageExtent.width
      /\ d.caps.minImageExtent.height <= d.caps.maxImageExtent.height
  BY DEF Devices, Format
<1>2. info.nimages = clamp_1D(d.caps.minImageCount, 3, high)
  BY ModesFilled
<1>3. high \in Nat /\ d.caps.minImageCount \in Nat /\ d.caps.minImageCount <= high
  BY <1>1 DEF uint32
<1>4. /\ info.nimages \in Nat
      /\ info.nimages >= d.caps.minImageCount /\ info.nimages <= high
      /\ info.nimages < 3 => info.nimages = high
  BY <1>2, <1>3, Clamped
<1>5. /\ d.caps.maxImageCount # 0 => info.nimages <= d.caps.maxImageCount
      /\ info.nimages < 3 => info.nimages = d.caps.maxImageCount
  BY <1>1, <1>4 DEF uint32
<1>6. ASSUME NEW dim \in {"width", "height"}
      PROVE  /\ d.caps.minImageExtent[dim] <= info.extent[dim]
             /\ info.extent[dim] <= d.caps.maxImageExtent[dim]
  <2> DEFINE low == d.caps.minImageExtent[dim]
             top == d.caps.maxImageExtent[dim]
             now == d.caps.currentExtent[dim]
  <2>1. info.extent[dim] = clamp_1D(low, now, top)
    <3>1. info.extent = clamp_2D(d.caps.minImageExtent, d.caps.currentExtent,
                                 d.caps.maxImageExtent)
      BY ModesFilled
    <3> HIDE DEF info
    <3>2. CASE dim = "width"
      BY <3>1, <3>2 DEF clamp_2D
    <3>3. CASE dim = "height"
      BY <3>1, <3>3 DEF clamp_2D
    <3> QED
      BY <3>2, <3>3
  <2>2. low \in Nat /\ now \in Nat /\ top \in Nat /\ low <= top
    BY <1>1 DEF Extents, uint32
  <2> HIDE DEF low, top, now, info
  <2>3. low <= info.extent[dim] /\ info.extent[dim] <= top
    BY <2>1, <2>2, Clamped
  <2> QED
    BY <2>3 DEF low, top
<1>7. info.fmt = d.fmts[Best(d.fmts)] /\ info.prmode = "MAILBOX"
  BY ModesFilled
<1>8. "MAILBOX" \in d.modes
  BY DEF Passes
<1> HIDE DEF info, high
<1>9. /\ \E n \in DOMAIN d.fmts : info.fmt = d.fmts[n]
      /\ (\E n \in DOMAIN d.fmts : d.fmts[n] = preferred) => info.fmt = preferred
      /\ (\E n \in DOMAIN d.fmts : d.fmts[n].colorSpace = preferred.colorSpace)
            => info.fmt.colorSpace = preferred.colorSpace
  BY <1>1, <1>7, BestIsBest
<1>10. Offered(info, d)
  BY <1>4, <1>5, <1>6, <1>7, <1>8, <1>9 DEF Offered
<1> QED
  BY <1>10 DEF info

-----------------------------------------------------------------------------
(* The chain of checks.                                                    *)

LEMMA InOrder ==
    /\ After("version") = "exts" /\ After("exts") = "features" /\ After("features") = "caps"
    /\ After("caps") = "fmts" /\ After("fmts") = "prmodes" /\ After("prmodes") = "queues"
<1>1. ASSUME NEW k \in 1 .. 6
      PROVE  After(Checks[k]) = Checks[k + 1]
  <2>1. \A n \in 1 .. 6 : Checks[n] = Checks[k] => n = k
    BY DEF Checks
  <2>2. (CHOOSE n \in 1 .. 6 : Checks[n] = Checks[k]) = k
    BY <2>1
  <2>3. After(Checks[k]) = Checks[1 + CHOOSE n \in 1 .. 6 : Checks[n] = Checks[k]]
    BY Zenon DEF After
  <2>4. After(Checks[k]) = Checks[1 + k]
    BY <2>2, <2>3, Zenon
  <2> QED
    BY <2>4
<1>2. /\ Checks[1] = "version" /\ Checks[2] = "exts" /\ Checks[3] = "features"
      /\ Checks[4] = "caps" /\ Checks[5] = "fmts" /\ Checks[6] = "prmodes"
      /\ Checks[7] = "queues"
  BY DEF Checks
<1> QED
  BY <1>1, <1>2

LEMMA SuitableMeans ==
    ASSUME NEW d
    PROVE  Suitable(d) <=> /\ Passes("version", d) /\ Passes("exts", d)
                           /\ Passes("features", d) /\ Passes("prmodes", d)
                           /\ \A q \in Queue_name : \E f \in DOMAIN d.fams : q \in d.fams[f]
<1>1. DOMAIN Checks = 1 .. 7
  BY DEF Checks
<1>2. /\ Checks[1] = "version" /\ Checks[2] = "exts" /\ Checks[3] = "features"
      /\ Checks[4] = "caps" /\ Checks[5] = "fmts" /\ Checks[6] = "prmodes"
      /\ Checks[7] = "queues"
  BY DEF Checks
<1>3. Passes("caps", d) /\ Passes("fmts", d) /\ Passes("queues", d)
  BY DEF Passes
<1>4. (\A n \in 1 .. 7 : Passes(Checks[n], d)) <=>
        /\ Passes("version", d) /\ Passes("exts", d)
        /\ Passes("features", d) /\ Passes("prmodes", d)
  BY <1>2, <1>3
<1> QED
  BY <1>1, <1>4 DEF Suitable, is_queue

LEMMA TwoQueues == Cardinality(Queue_name) = 2
<1>1. IsFiniteSet({"GRAPHICS_Q"}) /\ Cardinality({"GRAPHICS_Q"}) = 1
  BY FS_Singleton
<1>2. Cardinality({"GRAPHICS_Q"} \cup {"PRESENT_Q"}) = 1 + 1
  BY <1>1, FS_AddElement
<1>3. {"GRAPHICS_Q"} \cup {"PRESENT_Q"} = Queue_name
  BY DEF Queue_name
<1> QED
  BY <1>2, <1>3

LEMMA QueuesImplyServes ==
    ASSUME Shape, Queues, i <= Len(devs)
    PROVE  Serves(dev_qs, have_q, devs[i])
<1>1. Len(dev_qs.creates) <= 2
  BY DEF Queues
<1> QED
  BY <1>1, TwoQueues DEF Serves, Queues, is_queue

LEMMA SomeFamilies ==
    ASSUME NEW list \in Seq(Devices), NEW n \in 1 .. Len(list)
    PROVE  Len(list[n].fams) \in Nat
<1>1. list[n] \in Devices
  BY ElementOfSeq
<1> QED
  BY <1>1 DEF Devices

LEMMA InvInit == Init => IInv
<1> SUFFICES ASSUME Init PROVE IInv
  OBVIOUS
<1> USE DEF Init
<1>1. devs \in Seq(Devices) /\ Len(devs) \in Nat
  BY DevListsAssumption, LenProperties
<1>2. Shape /\ Passed /\ Info
  BY <1>1 DEF Shape, Passed, Info
<1>3. Queues
  <2>1. Len(<<>>) = 0 /\ dev_qs.creates = <<>>
    BY DEF NoQueues
  <2>2. dev_qs \in [creates : Seq(1 .. fam - 1), by_q : [Queue_name -> Nat]]
    BY DEF NoQueues
  <2>3. i <= Len(devs) => fam <= Len(devs[i].fams) + 1
    BY <1>1, SomeFamilies
  <2> QED
    BY <2>1, <2>2, <2>3 DEF Queues
<1>4. Rated
  BY <1>1 DEF Rated
<1> QED
  BY <1>2, <1>3, <1>4 DEF IInv

\* The next turn of select_pdev's loop starts with nothing known of the device.
LEMMA NextKeeps ==
    ASSUME Shape, i <= Len(devs), pc # "enumerate", NextDevice, UNCHANGED devs,
           best_score' \in {0, 1}
    PROVE  Shape' /\ Passed' /\ Info' /\ Queues'
<1> USE DEF NextDevice
<1>1. Len(devs) \in Nat
  BY LenProperties DEF Shape
<1>2. Shape'
  BY <1>1 DEF Shape
<1>3. Passed' /\ Info'
  BY DEF Passed, Info
<1>4. Queues'
  <2>1. Len(<<>>) = 0 /\ dev_qs'.creates = <<>>
    BY DEF NoQueues
  <2>2. dev_qs' \in [creates : Seq(1 .. fam' - 1), by_q : [Queue_name -> Nat]]
    BY DEF NoQueues
  <2>3. i' <= Len(devs) => fam' <= Len(devs'[i'].fams) + 1
    BY <1>1, <1>2, SomeFamilies DEF Shape
  <2>4. have_q' = {} /\ fam' = 1
    OBVIOUS
  <2> QED
    <3> HIDE DEF NextDevice
    <3> QED
      BY <2>1, <2>2, <2>3, <2>4 DEF Queues
<1> QED
  BY <1>2, <1>3, <1>4

\* A family that is looked at serves the queues that have none yet.
LEMMA FamilyKeeps ==
    ASSUME Shape, Queues, Family
    PROVE  Queues'
<1> USE DEF Family, Rating, is_queue
<1> DEFINE d == devs[i]
           c == dev_qs.creates
           by == dev_qs.by_q
           new == {q \in Queue_name \ have_q : q \in d.fams[fam]}
<1>1. /\ fam \in Nat \ {0} /\ fam <= Len(d.fams) /\ fam' = fam + 1 /\ i <= Len(devs)
      /\ have_q' = have_q \cup new /\ UNCHANGED <<devs, i>>
  BY DEF Shape
<1>2. c \in Seq(1 .. fam - 1) /\ by \in [Queue_name -> Nat] /\ Len(c) \in Nat
      /\ dev_qs = [creates |-> c, by_q |-> by]
  BY DEF Queues
<1>3. c \in Seq(1 .. fam)
  BY <1>1, <1>2, SeqMonotonic
<1>4. \A q \in Queue_name \ have_q', f \in 1 .. fam : q \notin d.fams[f]
  <2> SUFFICES ASSUME NEW q \in Queue_name \ have_q', NEW f \in 1 .. fam
               PROVE  q \notin d.fams[f]
    OBVIOUS
  <2>1. q \notin have_q /\ q \notin new
    BY <1>1
  <2>2. CASE f = fam
    BY <2>1, <2>2
  <2>3. CASE f # fam
    BY <1>1, <2>1, <2>3 DEF Queues
  <2> QED
    BY <2>2, <2>3
<1>5. CASE new = {}
  <2>1. UNCHANGED <<dev_qs, have_q>>
    BY <1>1, <1>5
  <2> HIDE DEF Family, new
  <2> QED
    BY <1>1, <1>2, <1>3, <1>4, <2>1 DEF Queues
<1>6. CASE new # {}
  <2> DEFINE c1 == Append(c, fam)
             by1 == [q \in Queue_name |-> IF q \in new THEN Len(c) + 1 ELSE by[q]]
  <2>1. dev_qs' = [creates |-> c1, by_q |-> by1]
    BY <1>6
  <2>2. /\ c1 \in Seq(1 .. fam) /\ Len(c1) = Len(c) + 1 /\ c1[Len(c) + 1] = fam
        /\ \A n \in 1 .. Len(c) : c1[n] = c[n] /\ c[n] \in 1 .. fam - 1
    BY <1>1, <1>2, <1>3, AppendProperties, ElementOfSeq
  <2>3. by1 \in [Queue_name -> Nat]
    BY <1>2
  <2>4. DOMAIN c1 = 1 .. Len(c) + 1 /\ DOMAIN c = 1 .. Len(c)
    BY <1>2, <2>2
  <2>5. Len(c1) <= IF have_q' = {} THEN 0 ELSE IF have_q' = Queue_name THEN 2 ELSE 1
    <3>0. Len(c) <= IF have_q = {} THEN 0 ELSE IF have_q = Queue_name THEN 2 ELSE 1
      BY DEF Queues
    <3> HIDE DEF Family, c1, c, d
    <3>1. have_q' # {} /\ have_q # Queue_name
      BY <1>1, <1>6 DEF Shape
    <3>2. CASE have_q = {}
      BY <1>2, <2>2, <3>0, <3>1, <3>2
    <3>3. CASE have_q # {}
      <4>1. have_q' = Queue_name
        <5>1. PICK q \in have_q, r \in new : q \in Queue_name /\ r \in Queue_name /\ q # r
          BY <1>6, <3>3 DEF Shape
        <5>2. Queue_name = {q, r}
          BY <5>1 DEF Queue_name
        <5> QED
          BY <1>1, <5>1, <5>2 DEF Shape
      <4> QED
        BY <1>2, <2>2, <3>0, <3>1, <3>3, <4>1
    <3> QED
      BY <3>2, <3>3
  <2> HIDE DEF c1
  <2>6. \A m, n \in DOMAIN c1 : m < n => c1[m] < c1[n]
    <3> SUFFICES ASSUME NEW m \in 1 .. Len(c) + 1, NEW n \in 1 .. Len(c) + 1, m < n
                 PROVE  c1[m] < c1[n]
      BY <2>4
    <3>1. m \in 1 .. Len(c)
      BY <1>2
    <3>2. CASE n = Len(c) + 1
      BY <1>1, <2>2, <3>1, <3>2
    <3>3. CASE n # Len(c) + 1
      <4>1. n \in 1 .. Len(c)
        BY <1>2, <3>3
      <4>2. c[m] < c[n]
        BY <2>4, <3>1, <4>1 DEF Queues
      <4> QED
        BY <2>2, <3>1, <4>1, <4>2
    <3> QED
      BY <3>2, <3>3
  <2>7. \A n \in DOMAIN c1 : \E q \in have_q' : by1[q] = n
    <3> SUFFICES ASSUME NEW n \in 1 .. Len(c) + 1
                 PROVE  \E q \in have_q' : by1[q] = n
      BY <2>4
    <3>1. CASE n = Len(c) + 1
      <4>1. PICK q \in new : TRUE
        BY <1>6
      <4> QED
        BY <1>1, <3>1, <4>1
    <3>2. CASE n # Len(c) + 1
      <4>1. n \in DOMAIN c
        BY <1>2, <2>4, <3>2
      <4>2. PICK q \in have_q : by[q] = n
        BY <4>1 DEF Queues
      <4>3. q \in Queue_name /\ q \notin new /\ q \in have_q'
        BY <1>1 DEF Shape
      <4> QED
        BY <4>2, <4>3
    <3> QED
      BY <3>1, <3>2
  <2>8. ASSUME NEW q \in have_q'
        PROVE  by1[q] \in DOMAIN c1 /\ q \in d.fams[c1[by1[q]]]
    <3>1. q \in Queue_name
      BY <1>1 DEF Shape
    <3>2. CASE q \in new
      BY <1>1, <1>2, <2>2, <2>4, <3>1, <3>2
    <3>3. CASE q \notin new
      <4>1. q \in have_q /\ by1[q] = by[q]
        BY <1>1, <3>1, <3>3
      <4>2. by[q] \in DOMAIN c /\ q \in d.fams[c[by[q]]]
        BY <1>1, <4>1 DEF Queues
      <4>3. by[q] \in 1 .. Len(c) /\ c1[by[q]] = c[by[q]]
        BY <2>2, <2>4, <4>2
      <4>4. by[q] \in DOMAIN c1
        BY <1>2, <2>4, <4>3
      <4> QED
        BY <4>1, <4>2, <4>3, <4>4
    <3> QED
      BY <3>2, <3>3
  <2> HIDE DEF Family, new, by1, d
  <2>9. fam' - 1 = fam /\ fam' <= Len(d.fams) + 1
    BY <1>1, SomeFamilies DEF Shape, d
  <2> QED
    BY <1>1, <1>4, <2>1, <2>2, <2>3, <2>5, <2>6, <2>7, <2>8, <2>9 DEF Queues, d
<1> QED
  BY <1>5, <1>6

\* A step that leaves the device as it is, and what is known of it.
LEMMA RatedKeeps ==
    ASSUME Rated, pc # "done", UNCHANGED <<devs, best, ret, i>>, i <= Len(devs),
           i \in Nat, Len(devs) \in Nat
    PROVE  Rated'
  BY DEF Rated, best

LEMMA InvStep == IInv /\ [Next]_vars => IInv'
<1> SUFFICES ASSUME IInv, [Next]_vars PROVE IInv'
  OBVIOUS
<1> USE DEF IInv, rating, best
<1>0. Len(devs) \in Nat /\ i \in Nat
  BY LenProperties DEF Shape
<1>1. CASE Enumerate
  <2> USE <1>1 DEF Enumerate
  <2>1. Shape' /\ Passed' /\ Info' /\ Queues'
    BY DEF Shape, Passed, Info, Queues
  <2>2. Rated'
    BY DEF Rated
  <2> QED
    BY <2>1, <2>2
<1>2. CASE Pass
  <2> USE <1>2 DEF Pass, Rating
  <2>1. pc' \in {"exts", "features", "caps", "fmts", "prmodes", "queues"}
    BY InOrder DEF Shape
  <2>2. Shape'
    BY <2>1 DEF Shape
  <2>3. Queues'
    BY DEF Queues
  <2>4. Rated'
    BY <1>0, RatedKeeps
  <2>5. Passed'
    BY InOrder DEF Shape, Passed
  <2>6. Info'
    <3>1. /\ pc \in {"version", "exts", "features"} => dev_srfinfo' = dev_srfinfo
          /\ pc \in {"version", "exts", "features"} => pc' \in {"exts", "features", "caps"}
      BY InOrder DEF Filled
    <3>2. CASE pc \in {"version", "exts", "features"}
      BY <3>1, <3>2 DEF Info
    <3>3. CASE pc = "caps"
      BY <3>3, InOrder DEF Info, WithCaps
    <3>4. CASE pc = "fmts"
      BY <3>4, InOrder DEF Info, WithFmt
    <3>5. CASE pc = "prmodes"
      BY <3>5, InOrder DEF Info, WithModes
    <3> QED
      BY <3>2, <3>3, <3>4, <3>5 DEF Shape
  <2> QED
    BY <2>2, <2>3, <2>4, <2>5, <2>6
<1>3. CASE Unfit
  <2> USE <1>3 DEF Unfit, Rating
  <2>1. Shape' /\ Passed' /\ Info' /\ Queues'
    BY NextKeeps DEF Shape
  <2>2. ~Suitable(devs[i])
    <3>1. CASE pc # "queues" /\ ~Passes(pc, devs[i])
      <4>1. Passes("caps", devs[i]) /\ Passes("fmts", devs[i])
        BY DEF Passes
      <4> QED
        BY <3>1, <4>1, SuitableMeans DEF Shape
    <3>2. CASE pc = "queues" /\ fam > Len(devs[i].fams) /\ have_q # Queue_name
      <4>1. PICK q \in Queue_name \ have_q : TRUE
        BY <3>2 DEF Shape
      <4>2. devs[i] \in Devices /\ Len(devs[i].fams) \in Nat
        BY <1>0, SomeFamilies, ElementOfSeq DEF Shape
      <4>3. DOMAIN devs[i].fams = 1 .. Len(devs[i].fams)
        BY <4>2 DEF Devices
      <4>4. \A f \in 1 .. fam - 1 : q \notin devs[i].fams[f]
        BY <4>1 DEF Queues
      <4>5. \A f \in DOMAIN devs[i].fams : f \in 1 .. fam - 1
        BY <3>2, <4>2, <4>3 DEF Shape
      <4> QED
        BY <4>1, <4>4, <4>5, SuitableMeans
    <3> QED
      BY <3>1, <3>2
  <2>3. Rated'
    BY <1>0, <2>2 DEF NextDevice, Rated
  <2> QED
    BY <2>1, <2>3
<1>4. CASE Error
  <2> USE <1>4 DEF Error, Rating
  <2>1. Shape' /\ Passed' /\ Info' /\ Queues'
    BY DEF Shape, Passed, Info, Queues
  <2>2. Rated'
    BY <1>0 DEF Shape, Rated
  <2> QED
    BY <2>1, <2>2
<1>5. CASE Family
  <2> USE <1>5 DEF Family, Rating
  <2>1. Queues'
    BY FamilyKeeps
  <2>2. Shape' /\ Passed' /\ Info'
    BY DEF Shape, Passed, Info
  <2>3. Rated'
    BY <1>0, RatedKeeps
  <2> QED
    BY <2>1, <2>2, <2>3
<1>6. CASE Fit
  <2> USE <1>6 DEF Fit, Rating
  <2>1. Shape' /\ Passed' /\ Info' /\ Queues'
    BY NextKeeps DEF Score, Shape
  <2>2. devs[i] \in Devices /\ i \in DOMAIN devs
    BY <1>0, ElementOfSeq DEF Shape
  <2>3. Serves(dev_qs, Queue_name, devs[i])
    BY QueuesImplyServes
  <2>4. Offered(dev_srfinfo, devs[i])
    BY <2>2, ModesOffered DEF Passed, Info
  <2>5. Suitable(devs[i])
    <3>1. \A q \in Queue_name : \E f \in DOMAIN devs[i].fams : q \in devs[i].fams[f]
      <4> SUFFICES ASSUME NEW q \in Queue_name
                   PROVE  \E f \in DOMAIN devs[i].fams : q \in devs[i].fams[f]
        OBVIOUS
      <4> DEFINE f == dev_qs.creates[dev_qs.by_q[q]]
      <4>1. q \in devs[i].fams[f] /\ f \in 1 .. fam - 1
        <5>1. dev_qs.creates \in Seq(1 .. fam - 1) /\ dev_qs.by_q[q] \in DOMAIN dev_qs.creates
          BY DEF Queues
        <5>2. q \in have_q /\ i <= Len(devs)
          OBVIOUS
        <5> HIDE <1>6 DEF Fit
        <5>3. f \in 1 .. fam - 1
          <6>1. dev_qs.by_q[q] \in 1 .. Len(dev_qs.creates)
            BY <5>1
          <6> QED
            BY <5>1, <6>1, ElementOfSeq
        <5> QED
          BY <5>2, <5>3 DEF Queues
      <4>2. fam <= Len(devs[i].fams) + 1 /\ Len(devs[i].fams) \in Nat
        BY <1>0, SomeFamilies DEF Shape, Queues
      <4>3. DOMAIN devs[i].fams = 1 .. Len(devs[i].fams)
        BY <2>2 DEF Devices
      <4>4. f \in DOMAIN devs[i].fams
        BY <4>1, <4>2, <4>3 DEF Shape
      <4> QED
        BY <4>1, <4>4
    <3> QED
      BY <3>1, SuitableMeans DEF Passed
  <2>6. Rated'
    <3>1. CASE best_score = 0
      <4>1. best_score' = 1 /\ best_dev' = i /\ srfinfo' = dev_srfinfo /\ qs' = dev_qs
            /\ UNCHANGED <<devs, ret>> /\ pc' = "version" /\ pc # "done" /\ ret = 0
        BY <3>1 DEF Score, NextDevice, Rated
      <4> HIDE <1>6 DEF Fit
      <4> QED
        BY <2>2, <2>3, <2>4, <2>5, <4>1 DEF Rated
    <3>2. CASE best_score = 1
      <4>1. UNCHANGED <<devs, best, ret>> /\ pc' = "version" /\ pc # "done" /\ ret = 0
        BY <3>2 DEF Score, NextDevice, Rated
      <4> HIDE <1>6 DEF Fit
      <4> QED
        BY <3>2, <4>1 DEF Rated
    <3> QED
      BY <3>1, <3>2 DEF Shape
  <2> QED
    BY <2>1, <2>6
<1>7. CASE Return
  <2> USE <1>7 DEF Return
  <2>1. Shape' /\ Passed' /\ Info' /\ Queues'
    BY DEF Shape, Passed, Info, Queues
  <2>2. Rated'
    BY <1>0 DEF Shape, Rated
  <2> QED
    BY <2>1, <2>2
<1>8. CASE UNCHANGED vars
  BY <1>8 DEF vars, Shape, Passed, Info, Queues, Rated
<1> QED
  BY <1>1, <1>2, <1>3, <1>4, <1>5, <1>6, <1>7, <1>8 DEF Next, Over

-----------------------------------------------------------------------------

\* The inductive invariant of select_pdev, for any devices.
THEOREM PickInvariance == Spec => []IInv
<1>1. Init => IInv
  BY InvInit
<1>2. IInv /\ [Next]_vars => IInv'
  BY InvStep
<1> QED
  BY <1>1, <1>2, PTL DEF Spec

\* The families create_queues has chosen serve the queues it has found, at
\* every turn of its loop, and there is room for them in creates.
THEOREM QueuesServed == Spec => []QueuesServe
<1>1. IInv => QueuesServe
  BY QueuesImplyServes DEF IInv, QueuesServe, Rating
<1> QED
  BY <1>1, PickInvariance, PTL

\* select_pdev returns a suitable device with its own infos, or finds none that
\* is suitable.
THEOREM SelectionSound == Spec => []SelectsSuitable
<1>1. IInv => SelectsSuitable
  <2> SUFFICES ASSUME IInv PROVE SelectsSuitable
    OBVIOUS
  <2>1. Len(devs) \in Nat /\ DOMAIN devs = 1 .. Len(devs) /\ i \in 1 .. Len(devs) + 1
    BY LenProperties DEF IInv, Shape
  <2>2. pc = "done" /\ i > Len(devs) /\ ret = 0 => \A n \in DOMAIN devs : ~Suitable(devs[n])
    BY <2>1 DEF IInv, Rated
  <2> QED
    BY <2>2 DEF IInv, Rated, SelectsSuitable
<1> QED
  BY <1>1, PickInvariance, PTL

=============================================================================
