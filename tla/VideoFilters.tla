----------------------------- MODULE VideoFilters -----------------------------
(***************************************************************************)
(* The video filters (filters/Basic/, FilterFactory, IVideoFilter) as the  *)
(* mixer uses them, and what their calls leave in the OpenGL context. A    *)
(* program, a vertex array and a filter go by the filter's name. A filter  *)
(* has the calls it makes for vertex arrays, those of the ES2 extension or *)
(* those of ES3, which do nothing in an ES2 context, and the colour its    *)
(* pixel kernel gives to an even area: a matrix and an addend for red,     *)
(* green, blue and alpha, in units of 1/Unit. (Where fisheye and glow take *)
(* their samples from does not show on an even area.)                      *)
(***************************************************************************)
EXTENDS Integers

Unit == 10000
Colour == 1..4
Own(c) == [k \in Colour |-> IF k = c THEN Unit ELSE 0]
Gray(percent) == <<30 * percent, 59 * percent, 11 * percent, 0>>
Zero == <<0, 0, 0, 0>>
Mixed(row, with, percent) == [k \in Colour |-> (row[k] * (100 - percent)) \div 100 + with[k]]
Same == <<Own(1), Own(2), Own(3), Own(4)>>

BasicVideoFilterBGRA == [name |-> "bgra", oes |-> TRUE, kernel |-> Same, add |-> Zero]
\* The rows are the columns of RGBtoYUV, which the colour is multiplied with from the left.
BasicVideoFilterBGRAinYUVAout ==
    [name |-> "bgra2yuva", oes |-> FALSE, add |-> Zero,
     kernel |-> <<<<2570, 4390, -1480, 0>>, <<5040, -3680, -2910, 0>>, <<980, -710, 4390, 0>>, <<625, 5000, 5000, Unit>>>>]
GrayscaleVideoFilter ==
    [name |-> "grayscale", oes |-> TRUE, kernel |-> <<Gray(100), Gray(100), Gray(100), Own(4)>>, add |-> Zero]
InvertColorsVideoFilter ==
    [name |-> "invertColors", oes |-> FALSE, add |-> <<Unit, Unit, Unit, 0>>,
     kernel |-> [c \in Colour |-> [k \in Colour |-> IF c = 4 THEN Own(c)[k] ELSE -Own(c)[k]]]]
\* Gray, times 1.2, 1.0 and 0.8, makes 75 percent.
SepiaVideoFilter ==
    [name |-> "sepia", oes |-> FALSE, add |-> Zero,
     kernel |-> <<Mixed(Own(1), Gray(90), 75), Mixed(Own(2), Gray(75), 75), Mixed(Own(3), Gray(60), 75), Own(4)>>]
FisheyeVideoFilter == [name |-> "fisheye", oes |-> FALSE, kernel |-> Same, add |-> Zero]
\* Colour times the contrast around, which is none; always opaque.
GlowVideoFilter == [name |-> "glow", oes |-> TRUE, kernel |-> <<Zero, Zero, Zero, Zero>>, add |-> <<0, 0, 0, Unit>>]
s_registration ==
    {BasicVideoFilterBGRA, BasicVideoFilterBGRAinYUVAout, GrayscaleVideoFilter, InvertColorsVideoFilter,
     SepiaVideoFilter, FisheyeVideoFilter, GlowVideoFilter}
Names == {f.name : f \in s_registration}
Registered(name) == CHOOSE f \in s_registration : f.name = name

\* A filter object. m_bound is never set by any of the classes.
NewFilter == [initialized |-> FALSE, vao |-> "none", matrix |-> 0]
\* FilterFactory::filter: the objects made so far, by name.
filter(m_filters, name) ==
    [n \in DOMAIN m_filters \cup {name} |-> IF n \in DOMAIN m_filters THEN m_filters[n] ELSE NewFilter]

\* The context: the program in use, the vertex array that is bound, the program
\* each vertex array has been laid out for, and each program's matrix.
NewContext == [program |-> "none", vao |-> "none",
               layout |-> [v \in Names \cup {"none"} |-> "none"], uMat |-> [n \in Names |-> 0]]
HasVertexArrays(name, es) == Registered(name).oes \/ es = 3

\* initialize: attributes are set in the vertex array that is bound.
InitializedFilter(m_filters, name, es) ==
    [m_filters EXCEPT ![name].initialized = TRUE,
                      ![name].vao = IF HasVertexArrays(name, es) THEN name ELSE "none"]
InitializedContext(gl, name, es) ==
    LET vao == IF HasVertexArrays(name, es) THEN name ELSE gl.vao
    IN  [gl EXCEPT !.vao = vao, !.layout[vao] = name]

\* Mutant: the vertex array of the initialization stays bound.
BoundProgram(gl, m_filters, name, es) ==
    [gl EXCEPT !.program = name, !.uMat[name] = m_filters[name].matrix]
\* bind of an initialized filter.
Bound(gl, m_filters, name, es) ==
    [gl EXCEPT !.program = name,
               !.vao = IF HasVertexArrays(name, es) THEN m_filters[name].vao ELSE @,
               !.uMat[name] = m_filters[name].matrix]
-----------------------------------------------------------------------------
\* A frame buffer keeps 0 to Unit.
Clamped(x) == IF x < 0 THEN 0 ELSE IF x > Unit THEN Unit ELSE x
Kernel(f, colour) ==
    [c \in Colour |-> Clamped(f.add[c] + (f.kernel[c][1] * colour[1] + f.kernel[c][2] * colour[2]
                                          + f.kernel[c][3] * colour[3] + f.kernel[c][4] * colour[4]) \div Unit)]

(* Two inversions are none, gray stays gray, sepia of a gray goes from red *)
(* to blue, and no filter lets another source through an opaque pixel.     *)
ColoursKept(colour) ==
    LET gray == Kernel(GrayscaleVideoFilter, colour)
        sepia == Kernel(SepiaVideoFilter, gray)
    IN  /\ Kernel(InvertColorsVideoFilter, Kernel(InvertColorsVideoFilter, colour)) = colour
        /\ gray[1] = gray[2] /\ gray[2] = gray[3] /\ Kernel(GrayscaleVideoFilter, gray) = gray
        /\ sepia[1] >= sepia[2] /\ sepia[2] >= sepia[3]
        /\ colour[4] = Unit => \A f \in s_registration : Kernel(f, colour)[4] = Unit
=============================================================================
