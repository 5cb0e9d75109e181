---------------------------- MODULE MCPickDevice -----------------------------
(* PickDevice for TLC.  Devices differ from a plain one in one respect each: *)
(* what the first checks look at, the surface, or the queue families.        *)
EXTENDS PickDevice

square(n) == [width |-> n, height |-> n]
srgb(f)   == [format |-> f, colorSpace |-> "SRGB_NONLINEAR"]
wide(f)   == [format |-> f, colorSpace |-> "EXTENDED_SRGB_LINEAR"]

plain == [
    apiVersion |-> TARGET_VULK_VER, exts |-> DEV_EXTENSIONS, features |-> DEV_FEATURE_NAMES,
    deviceType |-> "CPU", modes |-> {"FIFO", "MAILBOX"},
    fmts |-> <<preferred>>, fams |-> <<Queue_name>>,
    caps |-> [minImageCount |-> 1, maxImageCount |-> 0, minImageExtent |-> square(1),
              currentExtent |-> square(2), maxImageExtent |-> square(4)]]

Versions == {
    [plain EXCEPT !.apiVersion = [variant |-> v, major |-> m, minor |-> n]] :
        v \in 0 .. 1, m \in 0 .. 2, n \in 2 .. 4}

Lacking == {[plain EXCEPT !.exts = {}], [plain EXCEPT !.features = {}],
            [plain EXCEPT !.modes = {"FIFO"}]}

Kinds == {[plain EXCEPT !.deviceType = t] : t \in {"DISCRETE_GPU", "INTEGRATED_GPU"}}

\* 0 images at most means any number, the largest extent an undefined one.
Surfaces ==
    {[plain EXCEPT !.caps.minImageCount = n, !.caps.maxImageCount = m] :
        n \in 1 .. 4, m \in {0, 4, 5}}
    \cup {[plain EXCEPT !.caps.minImageCount = n, !.caps.maxImageCount = 2] : n \in 1 .. 2}
    \cup {[plain EXCEPT !.caps.minImageExtent = square(a),
                        !.caps.currentExtent = [width |-> b, height |-> c]] :
            a \in 0 .. 1, b \in {0, 1, 4, UINT32_MAX}, c \in {0, 4, UINT32_MAX}}

Formats ==
    {[plain EXCEPT !.fmts = fs] : fs \in
        UNION {[1 .. n -> {preferred, srgb("R8G8B8A8_SRGB"),
                           wide("B8G8R8A8_SRGB"), wide("R16G16B16A16_SFLOAT")}] : n \in 1 .. 3}}

Families ==
    {[plain EXCEPT !.fams = fs] : fs \in UNION {[1 .. n -> SUBSET Queue_name] : n \in 0 .. 3}}

Single == {<<d>> : d \in Versions \cup Lacking \cup Surfaces \cup Formats \cup Families}

\* For the order of devices a few of each sort are enough.
Sorts == Lacking \cup Kinds \cup {
    [plain EXCEPT !.fams = <<{"PRESENT_Q"}, {"GRAPHICS_Q"}>>],
    [plain EXCEPT !.fams = <<{}, {"GRAPHICS_Q"}>>],
    [plain EXCEPT !.fmts = <<srgb("R8G8B8A8_SRGB")>>],
    [plain EXCEPT !.caps.currentExtent = square(3)],
    [plain EXCEPT !.apiVersion.minor = 2]}
Several == UNION {[1 .. n -> Sorts] : n \in {0, 2, 3}}

Lists     == Single \cup Several
KindsOnly == UNION {[1 .. n -> Kinds] : n \in 1 .. 3}

AllChecks == {"enumerate", "exts", "caps", "fmts", "prmodes", "queues"}
Nothing   == {}

=============================================================================
