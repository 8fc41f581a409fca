-------------------------- MODULE VideoTransforms --------------------------
(***************************************************************************)
(* AspectTransform followed by PositionTransform (transforms/), as         *)
(* VCSimpleSession connects them between a source and the video mixer. The *)
(* source's thread pushes frames through both; the application's thread    *)
(* changes their settings, field by field and without a lock, and each     *)
(* transform computes its matrix anew only when its dirty flag is set.     *)
(* A matrix is a factor and a translation for each axis, in rationals.     *)
(***************************************************************************)
EXTENDS Integers
CONSTANTS
    Frames,     \* sizes <<width, height>> of frames
    Boundings,  \* sizes of the bounding box
    Sizes,      \* sizes of the image in the context
    Context,    \* size of the video context
    Position    \* where the image is to be in it

VARIABLES
    bounding, m_aspectMode, m_boundingBoxDirty, m_prev, m_scale,    \* AspectTransform
    size, m_positionIsDirty, m_matrix,                              \* PositionTransform
    push,       \* where the source's thread is in the two pushBuffers
    setter,     \* what the application's thread writes next: a height, flag or mode
    overlap     \* history: a setting changed during a push, and no matrix was computed since
aspect == <<bounding, m_aspectMode, m_boundingBoxDirty, m_prev, m_scale>>
position == <<size, m_positionIsDirty, m_matrix>>
vars == <<aspect, position, push, setter, overlap>>

Axes == 1..2
None == <<>>

\* The factors of the two axes, as <<numerator, denominator>>.
Scale(box, mode, f) ==
    LET byWidth == IF mode = "fit" THEN box[1] * f[2] < box[2] * f[1] ELSE box[1] * f[2] > box[2] * f[1]
        m == IF byWidth THEN 1 ELSE 2
    IN  [a \in Axes |-> <<f[a] * box[m], f[m] * box[a]>>]
\* The translation in the homogeneous coordinates of the compositor, then the factor.
Placed(s) == [a \in Axes |-> [factor |-> <<s[a], Context[a]>>, shift |-> <<2 * Position[a] - Context[a], Context[a]>>]]

Init ==
    /\ bounding \in Boundings /\ m_aspectMode \in {"fit", "fill"} /\ m_boundingBoxDirty = TRUE
    /\ m_prev = <<0, 0>> /\ m_scale = None
    /\ size \in Sizes /\ m_positionIsDirty = TRUE /\ m_matrix = None
    /\ push = "idle" /\ setter = [field |-> "none", to |-> None] /\ overlap = FALSE

Setting == setter.field # "none"
Overlaps == overlap' = (overlap \/ push # "idle")
Writes(field, to) == setter' = [field |-> field, to |-> to]

\* setBoundingSize: width, height, flag.
setBoundingSize(box) ==
    /\ ~Setting /\ Writes("height", box)
    /\ bounding' = [bounding EXCEPT ![1] = box[1]]
    /\ Overlaps /\ UNCHANGED <<m_aspectMode, m_boundingBoxDirty, m_prev, m_scale, position, push>>
SetHeight ==
    /\ setter.field = "height" /\ Writes("boxDirty", None)
    /\ bounding' = [bounding EXCEPT ![2] = setter.to[2]]
    /\ Overlaps /\ UNCHANGED <<m_aspectMode, m_boundingBoxDirty, m_prev, m_scale, position, push>>
setBoundingBoxDirty ==
    /\ setter.field = "boxDirty" /\ Writes("none", None)
    /\ m_boundingBoxDirty' = TRUE
    /\ Overlaps /\ UNCHANGED <<bounding, m_aspectMode, m_prev, m_scale, position, push>>
\* setAspectMode: the flag first.
setAspectMode(mode) ==
    /\ ~Setting /\ Writes(mode, None)
    /\ m_boundingBoxDirty' = TRUE
    /\ Overlaps /\ UNCHANGED <<bounding, m_aspectMode, m_prev, m_scale, position, push>>
SetMode ==
    /\ setter.field \in {"fit", "fill"} /\ Writes("none", None)
    /\ m_aspectMode' = setter.field
    /\ Overlaps /\ UNCHANGED <<bounding, m_boundingBoxDirty, m_prev, m_scale, position, push>>
\* PositionTransform::setSize: width, height, flag.
setSize(s) ==
    /\ ~Setting /\ Writes("sizeHeight", s)
    /\ size' = [size EXCEPT ![1] = s[1]]
    /\ Overlaps /\ UNCHANGED <<aspect, m_positionIsDirty, m_matrix, push>>
SetSizeHeight ==
    /\ setter.field = "sizeHeight" /\ Writes("sizeDirty", None)
    /\ size' = [size EXCEPT ![2] = setter.to[2]]
    /\ Overlaps /\ UNCHANGED <<aspect, m_positionIsDirty, m_matrix, push>>
SetSizeDirty ==
    /\ setter.field = "sizeDirty" /\ Writes("none", None)
    /\ m_positionIsDirty' = TRUE
    /\ Overlaps /\ UNCHANGED <<aspect, size, m_matrix, push>>

\* Mutant: a frame of another size leaves the matrix as it is.
FrameKept(f) ==
    /\ push = "idle" /\ push' = "aspect"
    /\ m_prev' = f /\ UNCHANGED m_boundingBoxDirty
    /\ overlap' = (overlap \/ Setting)
    /\ UNCHANGED <<bounding, m_aspectMode, m_scale, position, setter>>
\* AspectTransform::pushBuffer
Frame(f) ==
    /\ push = "idle" /\ push' = "aspect"
    /\ m_prev' = f /\ m_boundingBoxDirty' = (m_boundingBoxDirty \/ f # m_prev)
    /\ overlap' = (overlap \/ Setting)
    /\ UNCHANGED <<bounding, m_aspectMode, m_scale, position, setter>>
AspectCompute ==
    /\ push = "aspect"
    /\ IF m_boundingBoxDirty
       THEN m_scale' = Scale(bounding, m_aspectMode, m_prev) /\ push' = "aspectClear"
       ELSE UNCHANGED m_scale /\ push' = "position"
    /\ UNCHANGED <<bounding, m_aspectMode, m_boundingBoxDirty, m_prev, position, setter, overlap>>
AspectClear ==
    /\ push = "aspectClear" /\ push' = "position"
    /\ m_boundingBoxDirty' = FALSE
    /\ UNCHANGED <<bounding, m_aspectMode, m_prev, m_scale, position, setter, overlap>>
\* PositionTransform::pushBuffer
PositionCompute ==
    /\ push = "position"
    /\ IF m_positionIsDirty
       THEN m_matrix' = Placed(size) /\ push' = "positionClear"
       ELSE UNCHANGED m_matrix /\ push' = "output"
    /\ UNCHANGED <<aspect, size, m_positionIsDirty, setter, overlap>>
PositionClear ==
    /\ push = "positionClear" /\ push' = "output"
    /\ m_positionIsDirty' = FALSE
    /\ UNCHANGED <<aspect, size, m_matrix, setter, overlap>>
\* The mixer gets the frame. An overlap is over when both matrices are right again.
Settled == m_scale = Scale(bounding, m_aspectMode, m_prev) /\ m_matrix = Placed(size)
Output ==
    /\ push = "output" /\ push' = "idle"
    /\ overlap' = (overlap /\ ~(~Setting /\ Settled /\ ~m_boundingBoxDirty /\ ~m_positionIsDirty))
    /\ UNCHANGED <<aspect, position, setter>>

Next ==
    \/ \E box \in Boundings : setBoundingSize(box)
    \/ \E mode \in {"fit", "fill"} : setAspectMode(mode)
    \/ \E s \in Sizes : setSize(s)
    \/ SetHeight \/ setBoundingBoxDirty \/ SetMode \/ SetSizeHeight \/ SetSizeDirty
    \/ \E f \in Frames : Frame(f)
    \/ AspectCompute \/ AspectClear \/ PositionCompute \/ PositionClear \/ Output
Spec == Init /\ [][Next]_vars
-----------------------------------------------------------------------------
\* The matrix the mixer gets: aspect factor, then translation, then size.
Matrix ==
    [a \in Axes |->
        LET f == m_matrix[a].factor
            t == m_matrix[a].shift
        IN  [factor |-> <<m_scale[a][1] * f[1], m_scale[a][2] * f[2]>>,
             shift |-> <<m_scale[a][1] * t[1], m_scale[a][2] * t[2]>>]]
Undisturbed == push = "output" /\ ~overlap

(* A setting that changed between two frames shows in the next one, and    *)
(* only a change that overlaps a frame's push can be missed: a fitted      *)
(* frame is inside the bounding box and touches it on one axis, a filling  *)
(* one covers it likewise, neither is distorted, and the image has the     *)
(* size that was set.                                                      *)
FrameShowsSetting ==
    Undisturbed =>
        /\ \E a \in Axes : m_scale[a][1] = m_scale[a][2]
        /\ \A a \in Axes : IF m_aspectMode = "fit" THEN m_scale[a][1] <= m_scale[a][2] ELSE m_scale[a][1] >= m_scale[a][2]
        /\ m_scale[1][1] * bounding[1] * m_scale[2][2] * m_prev[2] = m_scale[2][1] * bounding[2] * m_scale[1][2] * m_prev[1]
        /\ m_matrix = Placed(size)
=============================================================================
