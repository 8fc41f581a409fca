------------------------------ MODULE VideoMixer ------------------------------
(***************************************************************************)
(* GLESVideoMixer (mixers/iOS/GLESVideoMixer.mm). Each source pushes on a  *)
(* thread of its own; textures are made, pruned and drawn by jobs on the   *)
(* GL queue; the mix thread posts a job for each frame unless the one      *)
(* before is unfinished or the application is in the background. The two   *)
(* frame buffers take turns: a turn draws one and puts out the other.      *)
(*                                                                         *)
(* Nothing guards the tables of the mixer; an access is a step here, and   *)
(* what a torn access to a map does is left out. So is the order of depth, *)
(* all sources having the same, and unregisterSource and sync, which       *)
(* nothing calls. A texture goes by its buffer.                            *)
(***************************************************************************)
EXTENDS Naturals, Sequences, FiniteSets, VideoFilters
CONSTANTS
    Sources,
    BuffersOf,      \* the buffers each source pushes
    Temporary,      \* those that are
    Filtered,       \* the sources whose filter the application chooses
    Chosen,         \* filter names it chooses from
    MaxPushes,      \* bound: pushes of all sources
    MaxTurns        \* bound: frames mixed
ASSUME MixerAssumption ==
    /\ BuffersOf \in [Sources -> SUBSET Nat] /\ \A s \in Sources : 0 \notin BuffersOf[s]
    /\ Filtered \subseteq Sources /\ Chosen \subseteq Names /\ MaxPushes \in Nat /\ MaxTurns \in Nat

VARIABLES
    es,             \* the version of the context
    pushes,         \* pushes so far, which is also the matrix of the last
    pushing,        \* per source: the push between setBuffer and the layer, 0 if none
    m_pixelBuffers, \* per source: the buffers that have a texture
    m_currentTexture,   \* per source: the buffer drawn, 0 if none
    m_layerMap, m_sourceMats, m_sourceFilters,
    m_filters,      \* the factory's filter objects
    m_glJobQueue,
    gl,             \* the OpenGL context
    m_mixing, m_paused, current_fb,
    turn,           \* frames posted
    next,           \* the layer the running job draws next, 0 while none runs
    currentFilter,
    draw,           \* history: the last draw
    drawn,          \* history: the turn that completed each frame buffer last
    out             \* history: the last output: its turn and the turn it was drawn in
sourceVars == <<pushes, pushing, m_sourceMats>>
tableVars == <<m_pixelBuffers, m_currentTexture, m_layerMap, m_sourceFilters, m_filters>>
mixVars == <<m_mixing, current_fb, turn>>
drawVars == <<gl, next, currentFilter, draw, drawn, out>>
vars == <<es, sourceVars, tableVars, m_glJobQueue, m_paused, mixVars, drawVars>>

NoDraw == [source |-> "", filter |-> "", program |-> "", layout |-> "", own |-> TRUE]

Init ==
    /\ es \in {2, 3} /\ pushes = 0 /\ pushing = [s \in Sources |-> 0]
    /\ m_pixelBuffers = [s \in Sources |-> {}] /\ m_currentTexture = [s \in Sources |-> 0]
    /\ m_layerMap = <<>> /\ m_sourceMats = [s \in Sources |-> 0]
    /\ m_sourceFilters = [s \in Sources |-> ""] /\ m_filters = [n \in {} |-> NewFilter]
    /\ m_glJobQueue = <<>> /\ gl = NewContext
    /\ m_mixing = FALSE /\ m_paused = FALSE /\ current_fb = 0 /\ turn = 0
    /\ next = 0 /\ currentFilter = "" /\ draw = NoDraw
    /\ drawn = [fb \in {0, 1} |-> 0] /\ out = [turn |-> 0, frame |-> 0]
-----------------------------------------------------------------------------
(* Sources.                                                                *)
Job(op, s, b) == [op |-> op, source |-> s, arg |-> b]

\* pushBuffer up to the return of setBuffer.
SetBuffer(s, b) ==
    /\ ~m_paused /\ pushing[s] = 0 /\ pushes < MaxPushes
    /\ pushes' = pushes + 1
    /\ pushing' = [pushing EXCEPT ![s] = pushes + 1]
    /\ IF b \in m_pixelBuffers[s]
       THEN /\ m_currentTexture' = [m_currentTexture EXCEPT ![s] = b]
            /\ m_glJobQueue' = Append(m_glJobQueue, Job("prune", s, b))
       ELSE /\ m_glJobQueue' = m_glJobQueue \o <<Job("texture", s, b), Job("prune", s, b)>>
            /\ UNCHANGED m_currentTexture
    /\ UNCHANGED <<es, m_pixelBuffers, m_layerMap, m_sourceFilters, m_filters, m_sourceMats, m_paused,
                   mixVars, drawVars>>

\* The rest of pushBuffer.
SetLayer(s) ==
    /\ pushing[s] # 0
    /\ m_layerMap' = IF \E i \in DOMAIN m_layerMap : m_layerMap[i] = s THEN m_layerMap ELSE Append(m_layerMap, s)
    /\ m_sourceMats' = [m_sourceMats EXCEPT ![s] = pushing[s]]
    /\ pushing' = [pushing EXCEPT ![s] = 0]
    /\ UNCHANGED <<es, pushes, m_pixelBuffers, m_currentTexture, m_sourceFilters, m_filters, m_glJobQueue,
                   m_paused, mixVars, drawVars>>
-----------------------------------------------------------------------------
(* The application.                                                        *)
SetSourceFilter(s, name) ==
    /\ m_sourceFilters[s] # name
    /\ m_filters' = filter(m_filters, name)
    /\ m_sourceFilters' = [m_sourceFilters EXCEPT ![s] = name]
    /\ UNCHANGED <<es, sourceVars, m_pixelBuffers, m_currentTexture, m_layerMap, m_glJobQueue, m_paused,
                   mixVars, drawVars>>

MixPaused ==
    /\ m_paused' = ~m_paused
    /\ UNCHANGED <<es, sourceVars, tableVars, m_glJobQueue, mixVars, drawVars>>
-----------------------------------------------------------------------------
(* The mix thread, at the time of a frame.                                 *)
\* Mutant: the buffers are switched also when a frame is left out.
MixTurnSwitches ==
    /\ turn < MaxTurns
    /\ IF m_mixing \/ m_paused
       THEN UNCHANGED <<m_mixing, turn, m_glJobQueue>>
       ELSE /\ m_mixing' = TRUE
            /\ turn' = turn + 1
            /\ m_glJobQueue' = Append(m_glJobQueue, Job("mix", "", current_fb))
    /\ current_fb' = 1 - current_fb
    /\ UNCHANGED <<es, sourceVars, tableVars, m_paused, drawVars>>
\* The block holds the number of the frame buffer as it was when it was posted.
MixTurn ==
    /\ ~m_mixing /\ ~m_paused /\ turn < MaxTurns
    /\ m_mixing' = TRUE
    /\ turn' = turn + 1
    /\ m_glJobQueue' = Append(m_glJobQueue, Job("mix", "", current_fb))
    /\ current_fb' = 1 - current_fb
    /\ UNCHANGED <<es, sourceVars, tableVars, m_paused, drawVars>>
-----------------------------------------------------------------------------
(* The GL queue.                                                           *)
Runs(op) == next = 0 /\ m_glJobQueue # <<>> /\ Head(m_glJobQueue).op = op

\* The texture of a buffer may fail to be made.
TextureJob ==
    /\ Runs("texture")
    /\ LET s == Head(m_glJobQueue).source
           b == Head(m_glJobQueue).arg
       IN  \/ /\ m_pixelBuffers' = [m_pixelBuffers EXCEPT ![s] = @ \cup {b}]
              /\ m_currentTexture' = [m_currentTexture EXCEPT ![s] = b]
           \/ UNCHANGED <<m_pixelBuffers, m_currentTexture>>
    /\ m_glJobQueue' = Tail(m_glJobQueue)
    /\ UNCHANGED <<es, sourceVars, m_layerMap, m_sourceFilters, m_filters, m_paused, mixVars, drawVars>>

\* Mutant: the buffer of the push is kept.
KeptByPush(s, b) == {c \in m_pixelBuffers[s] : c \notin Temporary \/ c = b}
\* The buffer that is drawn is kept, whoever pushed it.
Kept(s, b) == {c \in m_pixelBuffers[s] : c \notin Temporary \/ c = m_currentTexture[s]}
PruneJob ==
    /\ Runs("prune")
    /\ LET job == Head(m_glJobQueue)
       IN  m_pixelBuffers' = [m_pixelBuffers EXCEPT ![job.source] = Kept(job.source, job.arg)]
    /\ m_glJobQueue' = Tail(m_glJobQueue)
    /\ UNCHANGED <<es, sourceVars, m_currentTexture, m_layerMap, m_sourceFilters, m_filters, m_paused,
                   mixVars, drawVars>>

MixBegin ==
    /\ Runs("mix")
    /\ next' = 1 /\ currentFilter' = ""
    /\ UNCHANGED <<es, sourceVars, tableVars, m_glJobQueue, m_paused, mixVars, gl, draw, drawn, out>>

\* A layer: a source without a filter gets the first one; a change of filter
\* initializes it; what is drawn is what the context holds then.
DrawLayer ==
    /\ next \in DOMAIN m_layerMap
    /\ LET s == m_layerMap[next]
           name == IF m_sourceFilters[s] = "" THEN "bgra" ELSE m_sourceFilters[s]
           made == IF m_sourceFilters[s] = "" THEN filter(m_filters, name) ELSE m_filters
           fresh == currentFilter # name /\ ~made[name].initialized
           ready == IF fresh THEN InitializedFilter(made, name, es) ELSE made
           context == IF fresh THEN InitializedContext(gl, name, es) ELSE gl
           loaded == [ready EXCEPT ![name].matrix = m_sourceMats[s]]
           bound == Bound(context, loaded, name, es)
       IN  /\ m_sourceFilters' = [m_sourceFilters EXCEPT ![s] = name]
           /\ currentFilter' = name
           /\ IF m_currentTexture[s] # 0
              THEN /\ m_filters' = loaded
                   /\ gl' = bound
                   /\ draw' = [source |-> s, filter |-> name, program |-> bound.program,
                               layout |-> bound.layout[bound.vao],
                               own |-> /\ bound.uMat[bound.program] = m_sourceMats[s]
                                       /\ m_currentTexture[s] \in m_pixelBuffers[s] \cap BuffersOf[s]]
              ELSE m_filters' = ready /\ gl' = context /\ UNCHANGED draw
    /\ next' = next + 1
    /\ UNCHANGED <<es, sourceVars, m_pixelBuffers, m_currentTexture, m_layerMap, m_glJobQueue, m_paused,
                   mixVars, drawn, out>>

\* The other frame buffer is put out.
MixEnd ==
    /\ next > Len(m_layerMap)
    /\ LET fb == Head(m_glJobQueue).arg
       IN  /\ drawn' = [drawn EXCEPT ![fb] = turn]
           /\ out' = [turn |-> turn, frame |-> drawn[1 - fb]]
    /\ next' = 0
    /\ m_mixing' = FALSE
    /\ m_glJobQueue' = Tail(m_glJobQueue)
    /\ UNCHANGED <<es, sourceVars, tableVars, m_paused, current_fb, turn, gl, currentFilter, draw>>

Next ==
    \/ \E s \in Sources : SetLayer(s) \/ \E b \in BuffersOf[s] : SetBuffer(s, b)
    \/ \E s \in Filtered, name \in Chosen : SetSourceFilter(s, name)
    \/ MixPaused \/ MixTurn
    \/ TextureJob \/ PruneJob \/ MixBegin \/ DrawLayer \/ MixEnd
Spec == Init /\ [][Next]_vars
-----------------------------------------------------------------------------
(* A layer is drawn with the program and the vertex layout of its source's *)
(* filter, its source's matrix and a texture of its source that has not    *)
(* been released, whatever was bound before; except in an ES2 context once *)
(* a filter that makes ES3 calls has been set up there.                    *)
Es3Called == \E n \in DOMAIN m_filters : m_filters[n].initialized /\ ~HasVertexArrays(n, es)
DrawsOwnState ==
    draw # NoDraw => /\ draw.own
                     /\ draw.program = draw.filter
                     /\ draw.layout = draw.filter \/ Es3Called

(* A frame that is put out is the whole frame of the turn before, also     *)
(* when turns were skipped; only the first is a buffer nothing was drawn   *)
(* into.                                                                   *)
PutsOutWholeFrames == out.turn > 0 => out.frame = out.turn - 1

(* What is drawn last is a texture that exists: no prune takes it.         *)
CurrentTextureExists ==
    \A s \in Sources : m_currentTexture[s] # 0 => m_currentTexture[s] \in m_pixelBuffers[s]
=============================================================================
