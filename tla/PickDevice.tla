----------------------------- MODULE PickDevice ------------------------------
(***************************************************************************)
(* select_pdev: the devices are rated one after the other, each by a chain *)
(* of checks (rate_dev) that fills in a Surface_info and a Queue_infos of  *)
(* its own on the way, and these are copied out when the device is the     *)
(* best so far.  Covers ver.c, pdev.c, pdev/ext.c, pdev/srf.c, pdev/q.c.   *)
(***************************************************************************)
EXTENDS Naturals, Sequences, FiniteSets

CONSTANTS
    DevLists,       \* what vkEnumeratePhysicalDevices may return
    UINT32_MAX,     \* bound: stands for 2^32 - 1, larger than any other number here
    MayFail         \* the checks in which a call of Vulkan or malloc may fail

ASSUME MayFailAssumption ==
    MayFail \subseteq {"enumerate", "exts", "caps", "fmts", "prmodes", "queues"}

Queue_name == {"GRAPHICS_Q", "PRESENT_Q"}
uint32     == 0 .. UINT32_MAX
Extents    == [width : uint32, height : uint32]

\* What Vulkan says of a device and the surface: the ranges of the capabilities
\* are not empty, and there is a format.
Devices ==
    [apiVersion : [variant : Nat, major : Nat, minor : Nat],
     exts : SUBSET STRING, features : SUBSET STRING, deviceType : STRING,
     caps : {c \in [minImageCount : uint32, maxImageCount : uint32, minImageExtent : Extents,
                    currentExtent : Extents, maxImageExtent : Extents] :
                /\ c.maxImageCount # 0 => c.minImageCount <= c.maxImageCount
                /\ c.minImageExtent.width <= c.maxImageExtent.width
                /\ c.minImageExtent.height <= c.maxImageExtent.height},
     fmts : Seq([format : STRING, colorSpace : STRING]) \ {<<>>},
     modes : SUBSET STRING,
     fams : Seq(SUBSET Queue_name)]

ASSUME UINT32_MAXAssumption == UINT32_MAX \in Nat /\ UINT32_MAX >= 3
ASSUME DevListsAssumption   == \A list \in DevLists : list \in Seq(Devices)

VARIABLES
    devs,           \* the devices, with all there is to know about them
    pc,             \* the check that comes next, or "done"
    i,              \* the device being rated
    dev_srfinfo,    \* its Surface_info, as far as it is filled in
    fam,            \* its queue family that comes next
    have_q,         \* the queues that have a family
    dev_qs,         \* its Queue_infos; creates is the families to create queues of
    best_dev, best_score,
    srfinfo, qs,    \* *srfinfo and *qs, which graph_init goes on to use
    ret             \* the index of the device returned, 0 for NULL

rating == <<dev_srfinfo, fam, have_q, dev_qs>>
best   == <<best_dev, best_score, srfinfo, qs>>
vars   == <<devs, pc, i, rating, best, ret>>

-----------------------------------------------------------------------------
(* What a device is checked for.                                           *)

TARGET_VULK_VER == [variant |-> 0, major |-> 1, minor |-> 3]

\* check_version: 0 for a version that will do.
check_version(v) ==
    \/ v.major # TARGET_VULK_VER.major
    \/ v.minor < TARGET_VULK_VER.minor
    \/ v.variant # TARGET_VULK_VER.variant

DEV_EXTENSIONS    == {"VK_KHR_swapchain"}
DEV_FEATURE_NAMES == {"synchronization2"}

\* is_queue: a family is the set of queues it can be.
is_queue(q, family) == q \in family

Checks == <<"version", "exts", "features", "caps", "fmts", "prmodes", "queues">>
After(check) == Checks[1 + CHOOSE n \in 1 .. 6 : Checks[n] = check]

Passes(check, d) ==
    CASE check = "version"  -> ~check_version(d.apiVersion)
      [] check = "exts"     -> DEV_EXTENSIONS \subseteq d.exts
      [] check = "features" -> DEV_FEATURE_NAMES \subseteq d.features
      [] check = "prmodes"  -> "MAILBOX" \in d.modes
      [] OTHER              -> TRUE

-----------------------------------------------------------------------------
(* What a device is asked for.                                             *)

clamp_1D(low, x, high) ==
    CASE x < low  -> low
      [] x > high -> high
      [] OTHER    -> x

\* A currentExtent of 0xFFFFFFFF, which leaves the choice to the program, is
\* clamped like any other.
clamp_2D(low, x, high) ==
    [width  |-> clamp_1D(low.width, x.width, high.width),
     height |-> clamp_1D(low.height, x.height, high.height)]

preferred == [format |-> "B8G8R8A8_SRGB", colorSpace |-> "SRGB_NONLINEAR"]

\* check_srf_fmts: the first format that is preferred in full, else the last in
\* the preferred color space, else the first.
Best(fmts) ==
    LET full == {n \in DOMAIN fmts : fmts[n] = preferred}
        near == {n \in DOMAIN fmts : fmts[n].colorSpace = preferred.colorSpace}
    IN  CASE full # {} -> CHOOSE n \in full : \A m \in full : n <= m
          [] full = {} /\ near # {} -> CHOOSE n \in near : \A m \in near : n >= m
          [] OTHER -> 1

\* What a check that is passed adds to the Surface_info.
Filled(check, d, info) ==
    CASE check = "caps" ->
            [info EXCEPT !.nimages =
                clamp_1D(d.caps.minImageCount, 3,
                         IF d.caps.maxImageCount = 0 THEN UINT32_MAX
                                                     ELSE d.caps.maxImageCount),
                         !.extent =
                clamp_2D(d.caps.minImageExtent, d.caps.currentExtent, d.caps.maxImageExtent)]
      [] check = "fmts"    -> [info EXCEPT !.fmt = d.fmts[Best(d.fmts)]]
      [] check = "prmodes" -> [info EXCEPT !.prmode = "MAILBOX"]
      [] OTHER             -> info

\* What C does not initialize.
none     == "none"
NoInfo   == [nimages |-> none, extent |-> none, fmt |-> none, prmode |-> none]
NoQueues == [creates |-> <<>>, by_q |-> [q \in Queue_name |-> 0]]

\* The score a device gets whatever its deviceType: "score += 12" moves the
\* pointer, and leaves *score at 1.
Score(d) == 1

-----------------------------------------------------------------------------

Init ==
    /\ devs \in DevLists
    /\ pc = "enumerate"
    /\ i = 1
    /\ dev_srfinfo = NoInfo
    /\ fam = 1 /\ have_q = {} /\ dev_qs = NoQueues
    /\ best_dev = 1 /\ best_score = 0
    /\ srfinfo = NoInfo /\ qs = NoQueues
    /\ ret = 0

Enumerate ==
    /\ pc = "enumerate"
    /\ pc' = "version"
    /\ UNCHANGED <<devs, i, rating, best, ret>>

Rating == pc \notin {"enumerate", "done"} /\ i <= Len(devs)

\* On to the next turn of select_pdev's loop, with variables of its own.
NextDevice ==
    /\ i' = i + 1
    /\ pc' = "version"
    /\ dev_srfinfo' = NoInfo
    /\ fam' = 1 /\ have_q' = {} /\ dev_qs' = NoQueues

Pass ==
    /\ Rating
    /\ pc # "queues"
    /\ Passes(pc, devs[i])
    /\ dev_srfinfo' = Filled(pc, devs[i], dev_srfinfo)
    /\ pc' = After(pc)
    /\ UNCHANGED <<devs, i, fam, have_q, dev_qs, best, ret>>

\* rate_dev returns early, with *score still 0.
Unfit ==
    /\ Rating
    /\ \/ pc # "queues" /\ ~Passes(pc, devs[i])
       \/ pc = "queues" /\ fam > Len(devs[i].fams) /\ have_q # Queue_name
    /\ NextDevice
    /\ UNCHANGED <<devs, best, ret>>

\* rate_dev returns 1, and so much for the devices that were rated before.
Error ==
    /\ Rating \/ pc = "enumerate"
    /\ pc \in MayFail
    /\ pc' = "done"
    /\ UNCHANGED <<devs, i, rating, best, ret>>

\* Mutant of Family: ncreates is incremented before by_q takes it.
FamilyOff ==
    /\ Rating
    /\ pc = "queues"
    /\ fam <= Len(devs[i].fams)
    /\ fam' = fam + 1
    /\ LET new == {q \in Queue_name \ have_q : is_queue(q, devs[i].fams[fam])}
       IN  /\ have_q' = have_q \cup new
           /\ dev_qs' = IF new = {} THEN dev_qs
                        ELSE [creates |-> Append(dev_qs.creates, fam),
                              by_q |-> [q \in Queue_name |->
                                           IF q \in new THEN Len(dev_qs.creates) + 2
                                                        ELSE dev_qs.by_q[q]]]
    /\ UNCHANGED <<devs, pc, i, dev_srfinfo, best, ret>>

\* One turn of create_queues' loop: the family serves the queues that have none
\* yet and that it can be.
Family ==
    /\ Rating
    /\ pc = "queues"
    /\ fam <= Len(devs[i].fams)
    /\ fam' = fam + 1
    /\ LET new == {q \in Queue_name \ have_q : is_queue(q, devs[i].fams[fam])}
       IN  /\ have_q' = have_q \cup new
           /\ dev_qs' = IF new = {} THEN dev_qs
                        ELSE [creates |-> Append(dev_qs.creates, fam),
                              by_q |-> [q \in Queue_name |->
                                           IF q \in new THEN Len(dev_qs.creates) + 1
                                                        ELSE dev_qs.by_q[q]]]
    /\ UNCHANGED <<devs, pc, i, dev_srfinfo, best, ret>>

\* Mutant of Fit: the infos of the last device that fits are kept.
FitLast ==
    /\ Rating
    /\ pc = "queues"
    /\ fam > Len(devs[i].fams) /\ have_q = Queue_name
    /\ IF Score(devs[i]) > best_score
         THEN best_dev' = i /\ best_score' = Score(devs[i])
         ELSE UNCHANGED <<best_dev, best_score>>
    /\ srfinfo' = dev_srfinfo /\ qs' = dev_qs
    /\ NextDevice
    /\ UNCHANGED <<devs, ret>>

\* create_queues succeeds, and the device is rated.
Fit ==
    /\ Rating
    /\ pc = "queues"
    /\ fam > Len(devs[i].fams) /\ have_q = Queue_name
    /\ IF Score(devs[i]) > best_score
         THEN /\ best_dev' = i /\ best_score' = Score(devs[i])
              /\ srfinfo' = dev_srfinfo /\ qs' = dev_qs
         ELSE UNCHANGED best
    /\ NextDevice
    /\ UNCHANGED <<devs, ret>>

Return ==
    /\ pc = "version" /\ i > Len(devs)
    /\ ret' = IF best_score = 0 THEN 0 ELSE best_dev
    /\ pc' = "done"
    /\ UNCHANGED <<devs, i, rating, best>>

Over == pc = "done" /\ UNCHANGED vars

Next == Enumerate \/ Pass \/ Unfit \/ Error \/ Family \/ Fit \/ Return \/ Over

Spec == Init /\ [][Next]_vars

-----------------------------------------------------------------------------

\* A device that GTE can run on.
Suitable(d) ==
    /\ \A n \in DOMAIN Checks : Passes(Checks[n], d)
    /\ \A q \in Queue_name : \E f \in DOMAIN d.fams : is_queue(q, d.fams[f])

\* creates has room for MAX_Q families (include/graph/pdev.h:23), names none
\* twice, and by_q sends each of the queues found so far to one that can be it.
Serves(q_infos, queues, d) ==
    /\ Len(q_infos.creates) <= Cardinality(Queue_name)
    /\ \A m, n \in DOMAIN q_infos.creates : m < n => q_infos.creates[m] < q_infos.creates[n]
    /\ \A q \in queues :
        /\ q_infos.by_q[q] \in DOMAIN q_infos.creates
        /\ is_queue(q, d.fams[q_infos.creates[q_infos.by_q[q]]])
    /\ \A n \in DOMAIN q_infos.creates : \E q \in queues : q_infos.by_q[q] = n

\* What the swapchain is made with is something the surface offers: at least
\* three images where it may have so many, and the preferred format if it has it.
Offered(info, d) ==
    /\ info.nimages >= d.caps.minImageCount
    /\ d.caps.maxImageCount # 0 => info.nimages <= d.caps.maxImageCount
    /\ info.nimages < 3 => info.nimages = d.caps.maxImageCount
    /\ \A dim \in {"width", "height"} :
        /\ d.caps.minImageExtent[dim] <= info.extent[dim]
        /\ info.extent[dim] <= d.caps.maxImageExtent[dim]
    /\ \E n \in DOMAIN d.fmts : info.fmt = d.fmts[n]
    /\ (\E n \in DOMAIN d.fmts : d.fmts[n] = preferred) => info.fmt = preferred
    /\ (\E n \in DOMAIN d.fmts : d.fmts[n].colorSpace = preferred.colorSpace)
        => info.fmt.colorSpace = preferred.colorSpace
    /\ info.prmode \in d.modes

\* At every point of create_queues the families chosen serve the queues found,
\* so that dev_init and pools_init index creates by values that are there.
QueuesServe == Rating => Serves(dev_qs, have_q, devs[i])

\* select_pdev returns a suitable device if there is one and no call fails, and
\* the two infos it hands out with it are those of this device and of no other
\* that was rated before or after.
SelectsSuitable ==
    /\ ret # 0 => /\ Suitable(devs[ret])
                  /\ Serves(qs, Queue_name, devs[ret])
                  /\ Offered(srfinfo, devs[ret])
    /\ pc = "done" /\ i > Len(devs) /\ ret = 0 => \A n \in DOMAIN devs : ~Suitable(devs[n])

\* The scores of rate_dev's switch: a discrete GPU comes before an integrated
\* one, and that before any other.
Rank(d) ==
    CASE d.deviceType = "DISCRETE_GPU"   -> 12
      [] d.deviceType = "INTEGRATED_GPU" -> 11
      [] OTHER                           -> 10

\* Among the suitable devices one of the best kind is chosen.
PrefersTheBest ==
    ret # 0 => \A n \in DOMAIN devs : Suitable(devs[n]) => Rank(devs[n]) <= Rank(devs[ret])

=============================================================================
