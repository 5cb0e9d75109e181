------------------------------ MODULE Lifecycle ------------------------------
(***************************************************************************)
(* graph_init() and graph_destroy(): what GTE creates before the first     *)
(* frame, in which order, what each function undoes when one of its calls  *)
(* fails, and what graph_init's labels undo after it.                      *)
(*                                                                         *)
(* Each init function is the sequence of its steps, written with the       *)
(* undoing its own code does at that step; each destructor is the sequence *)
(* of the objects it destroys.  A malloc'ed array is an object too, and    *)
(* holds the handles stored in it.                                         *)
(***************************************************************************)
EXTENDS Naturals, Sequences, SequencesExt, FiniteSets

CONSTANTS
    NDevs,      \* physical devices that select_pdev rates
    NImgs,      \* imgs->nimgs
    NShaders,   \* SHADER_INFOS.nshaders
    NPools,     \* q_infos.ncreates
    MayFail     \* the calls that may fail

ASSUME SizesAssumption == {NDevs, NImgs, NShaders, NPools} \subseteq Nat \ {0}

\* What only gives back cannot fail.
ASSUME MayFailAssumption == "free" \notin MayFail

VARIABLES
    pc,     \* "init", "unwind", "spin", "up", "down", "failed", "gone" or "crashed"
    next,   \* the step of graph_init that comes next
    todo,   \* the objects still to be destroyed, in order
    live    \* the objects created and not destroyed

vars == <<pc, next, todo, live>>

-----------------------------------------------------------------------------
(* Objects are <<kind, index>>; steps are what the functions below list.   *)

One(k)     == <<k, 0>>
Each(k, n) == [i \in 1 .. n |-> <<k, i>>]
Down(k, n) == Reverse(Each(k, n))

\* A call whose result is checked: it makes at most one object, and undo is
\* what is destroyed, in order, when it fails.
Step(call, makes, frees, undo) ==
    [call |-> call, makes |-> makes, frees |-> frees, undo |-> undo,
     checked |-> TRUE, spins |-> FALSE]

Make(call, o, undo) == Step(call, {o}, {}, undo)
Get(call, undo)     == Step(call, {}, {}, undo)
Free(o)             == Step("free", {}, {o}, <<>>)
Frees(os)           == [i \in DOMAIN os |-> Free(os[i])]

\* A loop: steps, n times.
Repeat(n, steps) == [i \in 1 .. n * Len(steps) |-> steps[((i - 1) % Len(steps)) + 1]]

\* steps, in a caller that has more to undo.
Within(steps, after) ==
    [i \in DOMAIN steps |-> [steps[i] EXCEPT !.undo = @ \o after]]

-----------------------------------------------------------------------------
(* win.c, debug.c, dev.c, sch.c, rpass.c: one object each, or nearly.      *)

win_open == <<
    Make("glfwInit", One("glfw"), <<>>),
    Get("default_win_size", <<One("glfw")>>),
    Make("glfwCreateWindow", One("win"), <<One("glfw")>>) >>
win_close == <<One("win"), One("glfw")>>

srf_init    == <<Make("glfwCreateWindowSurface", One("srf"), <<>>)>>
srf_destroy == <<One("srf")>>

debug_start == <<Make("vkCreateDebugUtilsMessengerEXT", One("msgr"), <<>>)>>
debug_stop  == <<One("msgr")>>

dev_init    == <<Make("vkCreateDevice", One("dev"), <<>>)>>
dev_destroy == <<One("dev")>>

sch_init == <<
    Get("SCH_AGAIN", <<>>),
    Make("vkCreateSwapchainKHR", One("sch"), <<>>) >>
sch_destroy == <<One("sch")>>

rpass_init    == <<Make("vkCreateRenderPass", One("rpass"), <<>>)>>
rpass_destroy == <<One("rpass")>>

triangle_pipe_init == <<
    Make("vkCreatePipelineLayout", One("layout"), <<>>),
    Make("vkCreateGraphicsPipelines", One("pipe"), <<One("layout")>>) >>
triangle_pipe_destroy == <<One("pipe"), One("layout")>>

-----------------------------------------------------------------------------
(* inst.c and inst/ext.c: the instance, and the arrays of names it takes.  *)

nameset_to_array(arr) == <<
    Make("malloc", arr, <<>>),
    Make("nameset_begin", One("iter"), <<arr>>),
    Free(One("iter")) >>

get_layers ==
    <<Make("nameset_init", One("names"), <<>>)>>
    \o Within(<<Get("nameset_set", <<>>)>> \o nameset_to_array(One("layers")),
              <<One("names")>>)
    \o <<Free(One("names"))>>

\* Mutant of get_exts: the nameset is freed on the error paths only.
get_exts_keeps ==
    <<Make("nameset_init", One("names"), <<>>)>>
    \o Within(<<Get("glfwGetRequiredInstanceExtensions", <<>>), Get("nameset_set", <<>>)>>
                  \o nameset_to_array(One("exts")),
              <<One("names")>>)

get_exts ==
    <<Make("nameset_init", One("names"), <<>>)>>
    \o Within(<<Get("glfwGetRequiredInstanceExtensions", <<>>), Get("nameset_set", <<>>)>>
                  \o nameset_to_array(One("exts")),
              <<One("names")>>)
    \o <<Free(One("names"))>>

\* What check_layers, check_exts and check_dev_exts share: enumerate twice, and
\* collect the names in a nameset.
Offered(enumerate) == <<
    Get(enumerate, <<>>),
    Make("malloc", One("props"), <<>>),
    Get(enumerate, <<One("props")>>),
    Make("nameset_init", One("set"), <<One("props")>>),
    Get("nameset_set", <<One("set"), One("props")>>) >>

check_layers ==
    Offered("vkEnumerateInstanceLayerProperties")
    \o <<Get("nameset_get", <<One("set"), One("props")>>),
         Free(One("set")), Free(One("props"))>>

check_exts ==
    Offered("vkEnumerateInstanceExtensionProperties")
    \o <<Get("nameset_get", <<One("set"), One("props")>>),
         Free(One("set")), Free(One("props"))>>

inst_create ==
    <<Get("vkEnumerateInstanceVersion", <<>>), Get("check_version", <<>>)>>
    \o get_layers
    \o Within(check_layers \o get_exts, <<One("layers")>>)
    \o Within(check_exts \o <<Make("vkCreateInstance", One("inst"), <<>>)>>,
              <<One("exts"), One("layers")>>)
    \o <<Free(One("exts")), Free(One("layers"))>>
inst_destroy == <<One("inst")>>

-----------------------------------------------------------------------------
(* pdev.c, pdev/ext.c, pdev/srf.c, pdev/q.c: nothing outlives select_pdev. *)
(* A device that does not fit is left early, with the same arrays freed.   *)

check_dev_exts ==
    Offered("vkEnumerateDeviceExtensionProperties")
    \o <<Free(One("set")), Free(One("props"))>>

\* check_srf_fmts and check_srf_prmodes.
Listed(enumerate, arr) == <<
    Get(enumerate, <<>>),
    Make("malloc", arr, <<>>),
    Get(enumerate, <<arr>>),
    Free(arr) >>

check_srf ==
    <<Get("vkGetPhysicalDeviceSurfaceCapabilitiesKHR", <<>>)>>
    \o Listed("vkGetPhysicalDeviceSurfaceFormatsKHR", One("fmts"))
    \o Listed("vkGetPhysicalDeviceSurfacePresentModesKHR", One("modes"))

create_queues == <<
    Make("malloc", One("fams"), <<>>),
    Get("vkGetPhysicalDeviceSurfaceSupportKHR", <<One("fams")>>),
    Free(One("fams")) >>

rate_dev == check_dev_exts \o check_srf \o create_queues

select_pdev ==
    <<Get("vkEnumeratePhysicalDevices", <<>>), Make("malloc", One("devs"), <<>>)>>
    \o Within(<<Get("vkEnumeratePhysicalDevices", <<>>)>>
                  \o Repeat(NDevs, rate_dev)
                  \o <<Get("best_score", <<>>)>>,
              <<One("devs")>>)
    \o <<Free(One("devs"))>>

-----------------------------------------------------------------------------
(* img.c, shader.c, frame.c, pool.c, cmd/tri.c, sync.c: arrays of handles. *)

\* calloc's result is not looked at: img_init tests imgs->imgs once more.
img_init ==
    <<Get("vkGetSwapchainImagesKHR", <<>>),
      Make("malloc", One("imgs"), <<>>),
      Get("vkGetSwapchainImagesKHR", <<One("imgs")>>),
      [Make("calloc", One("views"), <<>>) EXCEPT !.checked = FALSE]>>
    \o [i \in 1 .. NImgs |->
            Make("vkCreateImageView", <<"view", i>>,
                 Each("view", i - 1) \o <<One("views"), One("imgs")>>)]
img_destroy == Each("view", NImgs) \o <<One("views"), One("imgs")>>

\* Mutant of shaders_init: "while (i)" without "--i".
shaders_init_spins ==
    <<Make("malloc", One("mods"), <<>>), Make("malloc", One("stages"), <<One("mods")>>)>>
    \o [i \in 1 .. NShaders |->
            [Make("vkCreateShaderModule", <<"mod", i>>, <<One("stages"), One("mods")>>)
                EXCEPT !.spins = i > 1]]

shaders_init ==
    <<Make("malloc", One("mods"), <<>>), Make("malloc", One("stages"), <<One("mods")>>)>>
    \o [i \in 1 .. NShaders |->
            Make("vkCreateShaderModule", <<"mod", i>>,
                 Down("mod", i - 1) \o <<One("stages"), One("mods")>>)]
shaders_destroy == Each("mod", NShaders) \o <<One("stages"), One("mods")>>

\* "while (i) vkDestroyFramebuffer(dev, frames->frames[i], NULL)": i is never
\* decremented, so that only the failure of the first framebuffer gets out.
frames_init ==
    <<Make("malloc", One("frames"), <<>>)>>
    \o [i \in 1 .. NImgs |->
            [Make("vkCreateFramebuffer", <<"frame", i>>, <<One("frames")>>)
                EXCEPT !.spins = i > 1]]
\* Mutant of frames_destroy: the array is freed first.
frames_destroy_early == <<One("frames")>> \o Each("frame", NImgs)

frames_destroy == Each("frame", NImgs) \o <<One("frames")>>

\* Mutant of pools_init: the pool that failed is destroyed too.
pools_init_late ==
    [i \in 1 .. NPools |->
        Make("vkCreateCommandPool", <<"pool", i>>, Down("pool", i))]

pools_init ==
    [i \in 1 .. NPools |->
        Make("vkCreateCommandPool", <<"pool", i>>, Down("pool", i - 1))]
pools_destroy == Each("pool", NPools)

triangle_cmds_init ==
    <<Make("malloc", One("bufs"), <<>>),
      Make("vkAllocateCommandBuffers", One("cmds"), <<One("bufs")>>)>>
    \o Repeat(NImgs,
            <<Get("vkBeginCommandBuffer", <<One("cmds"), One("bufs")>>),
              Get("vkEndCommandBuffer", <<One("cmds"), One("bufs")>>)>>)
triangle_cmds_destroy == <<One("cmds"), One("bufs")>>

\* Mutant of err_free_obj_f: a handle freed in place of its array.
err_free_obj_f_typo == <<One("obj_f"), One("grp")>>

\* sync_init's labels, from the last one up.
err_free_obj_f    == <<One("obj_f"), One("grps")>>
err_free_grp_sems == <<One("obj_s")>> \o err_free_obj_f

sync_init ==
    <<Make("malloc", One("grps"), <<>>),
      Make("malloc", One("obj_f"), <<One("grps")>>),
      Make("malloc", One("obj_s"), err_free_obj_f)>>
    \o [i \in 1 .. NImgs |->
            Make("vkCreateSemaphore", <<"grp", i>>, Down("grp", i - 1) \o err_free_grp_sems)]
    \o [i \in 1 .. NImgs |->
            Make("vkCreateFence", <<"fence", i>>,
                 Down("fence", i - 1) \o Down("grp", NImgs) \o err_free_grp_sems)]
    \o [i \in 1 .. NImgs |->
            Make("vkCreateSemaphore", <<"sem", i>>,
                 Down("sem", i - 1) \o Down("fence", NImgs)
                     \o Down("grp", NImgs) \o err_free_grp_sems)]
sync_destroy ==
    Each("sem", NImgs) \o Each("fence", NImgs) \o Each("grp", NImgs)
    \o <<One("obj_s"), One("obj_f"), One("grps")>>

-----------------------------------------------------------------------------
(* graph.c.  The labels of graph_init fall through, from the last one up.  *)

err_free_g        == <<One("g")>>
err_close_win     == win_close             \o err_free_g
err_free_inst     == inst_destroy          \o err_close_win
err_stop_debug    == debug_stop            \o err_free_inst

\* Mutant of err_free_srf: the surface is left to the instance.
err_free_srf_skips == err_stop_debug

err_free_srf      == srf_destroy           \o err_stop_debug
err_free_dev      == dev_destroy           \o err_free_srf
err_free_sch      == sch_destroy           \o err_free_dev
err_free_img      == img_destroy           \o err_free_sch
err_free_shaders  == shaders_destroy       \o err_free_img
err_free_rpass    == rpass_destroy         \o err_free_shaders
err_free_pipe     == triangle_pipe_destroy \o err_free_rpass
err_free_frames   == frames_destroy        \o err_free_pipe
err_free_pools    == pools_destroy         \o err_free_frames
err_free_tri_cmds == triangle_cmds_destroy \o err_free_pools

graph_init ==
    <<Make("malloc", One("g"), <<>>)>>
    \o Within(win_open,           err_free_g)
    \o Within(inst_create,        err_close_win)
    \o Within(debug_start,        err_free_inst)
    \o Within(srf_init,           err_stop_debug)
    \o Within(select_pdev,        err_free_srf)
    \o Within(dev_init,           err_free_srf)
    \o Within(sch_init,           err_free_dev)
    \o Within(img_init,           err_free_sch)
    \o Within(shaders_init,       err_free_img)
    \o Within(rpass_init,         err_free_shaders)
    \o Within(triangle_pipe_init, err_free_rpass)
    \o Within(frames_init,        err_free_pipe)
    \o Within(pools_init,         err_free_frames)
    \o Within(triangle_cmds_init, err_free_pools)
    \o Within(sync_init,          err_free_tri_cmds)
    \o Frees(shaders_destroy)

graph_destroy ==
    sync_destroy \o triangle_cmds_destroy \o pools_destroy \o frames_destroy
    \o triangle_pipe_destroy \o rpass_destroy \o img_destroy \o sch_destroy
    \o dev_destroy \o srf_destroy \o debug_stop \o inst_destroy \o win_close
    \o <<One("g")>>

-----------------------------------------------------------------------------

\* The array an object's handle is stored in.
Holder(o) ==
    CASE o[1] = "view"  -> {One("views")}
      [] o[1] = "mod"   -> {One("mods")}
      [] o[1] = "frame" -> {One("frames")}
      [] o = One("cmds") -> {One("bufs")}
      [] o[1] = "grp"   -> {One("grps")}
      [] o[1] = "fence" -> {One("obj_f")}
      [] o[1] = "sem"   -> {One("obj_s")}
      [] OTHER          -> {}

Init ==
    /\ pc = "init"
    /\ next = 1
    /\ todo = <<>>
    /\ live = {}

Pending == pc = "init" /\ next <= Len(graph_init)

\* A store into an array that was never allocated.
Faults == \E o \in graph_init[next].makes : ~(Holder(o) \subseteq live)

Succeed ==
    /\ Pending /\ ~Faults
    /\ live' = (live \cup graph_init[next].makes) \ graph_init[next].frees
    /\ next' = next + 1
    /\ UNCHANGED <<pc, todo>>

\* The call fails, the code notices, and starts to undo.
Fail ==
    /\ Pending /\ ~Faults
    /\ graph_init[next].call \in MayFail
    /\ graph_init[next].checked
    /\ pc' = IF graph_init[next].spins THEN "spin" ELSE "unwind"
    /\ todo' = graph_init[next].undo
    /\ UNCHANGED <<next, live>>

\* The call fails and the code goes on as if it had not.
FailUnnoticed ==
    /\ Pending /\ ~Faults
    /\ graph_init[next].call \in MayFail
    /\ ~graph_init[next].checked
    /\ next' = next + 1
    /\ UNCHANGED <<pc, todo, live>>

Crash ==
    /\ Pending /\ Faults
    /\ pc' = "crashed"
    /\ UNCHANGED <<next, todo, live>>

\* frames_init's loop: vkDestroyFramebuffer(dev, frames->frames[i]) once more.
Spin == pc = "spin" /\ UNCHANGED vars

Unwind ==
    /\ pc = "unwind"
    /\ todo # <<>>
    /\ live' = live \ {Head(todo)}
    /\ todo' = Tail(todo)
    /\ UNCHANGED <<pc, next>>

\* graph_init returns NULL, and main() returns 1.
ReturnNull ==
    /\ pc = "unwind"
    /\ todo = <<>>
    /\ pc' = "failed"
    /\ UNCHANGED <<next, todo, live>>

ReturnGraph ==
    /\ pc = "init"
    /\ next = Len(graph_init) + 1
    /\ pc' = "up"
    /\ UNCHANGED <<next, todo, live>>

\* A graph_draw that fails is the only way out of main()'s loop.
Quit ==
    /\ pc = "up"
    /\ pc' = "down"
    /\ todo' = graph_destroy
    /\ UNCHANGED <<next, live>>

TearDown ==
    /\ pc = "down"
    /\ todo # <<>>
    /\ live' = live \ {Head(todo)}
    /\ todo' = Tail(todo)
    /\ UNCHANGED <<pc, next>>

Return ==
    /\ pc = "down"
    /\ todo = <<>>
    /\ pc' = "gone"
    /\ UNCHANGED <<next, todo, live>>

Over == pc \in {"failed", "gone", "crashed"} /\ UNCHANGED vars

Next ==
    \/ Succeed \/ Fail \/ FailUnnoticed \/ Crash
    \/ Spin \/ Unwind \/ ReturnNull
    \/ ReturnGraph \/ Quit \/ TearDown \/ Return
    \/ Over

Spec == Init /\ [][Next]_vars

\* The program runs on; whether and when a draw fails is not up to it.
FairSpec == Spec /\ WF_vars(Succeed \/ Crash \/ Unwind \/ ReturnNull
                                \/ ReturnGraph \/ TearDown \/ Return)

-----------------------------------------------------------------------------

Objects == UNION {graph_init[i].makes : i \in DOMAIN graph_init}

TypeOK ==
    /\ pc \in {"init", "unwind", "spin", "up", "down", "failed", "gone", "crashed"}
    /\ next \in 1 .. Len(graph_init) + 1
    /\ todo \in Seq(Objects)
    /\ live \subseteq Objects

\* The objects an object may not outlive: those it was created from, and those
\* it refers to when it is used.
Needs(o) ==
    Holder(o) \cup
    CASE o[1] = "win"                    -> {One("glfw")}
      [] o[1] \in {"msgr", "dev"}        -> {One("inst")}
      [] o[1] = "srf"                    -> {One("inst"), One("win")}
      [] o[1] = "sch"                    -> {One("dev"), One("srf")}
      [] o[1] = "view"                   -> {One("dev"), One("sch")}
      [] o[1] = "frame"                  -> {One("rpass"), <<"view", o[2]>>}
      [] o[1] = "pipe"                   -> {One("layout"), One("rpass")}
      [] o[1] = "cmds"                   -> {One("pipe")} \cup ToSet(pools_destroy)
      [] o[1] \in {"mod", "rpass", "layout", "pool", "grp", "fence", "sem"}
                                         -> {One("dev")}
      [] OTHER                           -> {}

\* No object is destroyed, or freed, that does not exist: the undo list of
\* every failing call names only what was created before it, and nothing twice.
DestroysLive ==
    /\ pc \in {"unwind", "down"} /\ todo # <<>> => Head(todo) \in live
    /\ Pending => graph_init[next].frees \subseteq live

\* Nothing is destroyed before what was created from it, stored in it or
\* recorded with it, on any error path and in graph_destroy.
NeedsOutlive == \A o \in live : Needs(o) \subseteq live

\* graph_init leaves nothing behind when it returns NULL, and graph_destroy
\* nothing when it returns; no temporary is lost under a later one of its name.
NoLeak ==
    /\ pc \in {"failed", "gone"} => live = {}
    /\ Pending => graph_init[next].makes \cap live = {}

\* What graph_init hands out is exactly what graph_destroy gives back: no
\* temporary survives, and nothing graph_draw uses is missing.
HandsOutTheGraph == pc = "up" => live = ToSet(graph_destroy)

\* graph_init returns, whichever call fails.
InitReturns == pc = "init" ~> pc \in {"up", "failed"}

\* It does, unless the failure is one of the two that are mishandled.
OthersReturn ==
    pc = "init" ~> \/ pc \in {"up", "failed", "crashed"}
                   \/ pc = "spin" /\ graph_init[next].call = "vkCreateFramebuffer"

\* A failed allocation is noticed ("Can't calloc") before it is stored into.
AllocationsChecked == pc # "crashed"

=============================================================================
