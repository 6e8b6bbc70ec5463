------------------------ MODULE MC_SubwooferRouting ------------------------
(* A valid routing of two speakers and a bass, its variations, and what    *)
(* breaks it, on devices of two and three channels.                        *)
EXTENDS SubwooferRouting

MCLayouts == {<<"L", "R">>, <<"R", "S", "L">>, <<"L", "L">>, <<"R", "S">>}
MCSignals == {<<4, 0, 0>>, <<0, 4, 8>>}
MCGains == [g \in {-6, 0, 6, 9000} |-> CASE g = -6 -> -2 [] g = 0 -> 1 [] g = 6 -> 2 [] g = 9000 -> NotFinite]
MCTrims == [g \in {-6, 0} |-> IF g = 0 THEN 2 ELSE 1]
MCCoefficients ==
  [name \in {"low", "shelf"} |->
     IF name = "low" THEN [b0 |-> 1, b1 |-> 2, b2 |-> -1, a1 |-> 1, a2 |-> -1]
                     ELSE [b0 |-> 2, b1 |-> 0, b2 |-> 1, a1 |-> 0, a2 |-> 1]]

Low   == [name |-> "low", hz |-> 2, q |-> 70, shelf |-> FALSE, gain |-> 0]
Shelf == [name |-> "shelf", hz |-> 1, q |-> 100, shelf |-> TRUE, gain |-> 6]

Gain(g)     == [kind |-> "Gain", gain |-> g]
Polarity(i) == [kind |-> "Polarity", inverted |-> i]
Delay(ms)   == [kind |-> "Delay", ms |-> ms]
Biquad(f)   == [kind |-> "Biquad", filter |-> f]
Slots(fs)   == [kind |-> "Slots", filters |-> fs]

From(c, g) == [channel |-> c, gain |-> g]
Of(p, g)   == [path |-> p, gain |-> g]

Main == [id |-> "main", kind |-> "Main", mix |-> <<From("L", 1)>>, pre |-> 0,
         chain |-> <<Polarity(FALSE), Delay(0), Slots(<<>>)>>, post |-> 6]
Bass == [id |-> "bass", kind |-> "Bass", mix |-> <<From("L", 1), From("R", 2)>>, pre |-> 6,
         chain |-> <<Polarity(TRUE), Biquad(Low), Delay(1), Gain(6), Slots(<<Shelf>>)>>, post |-> 0]

Group(mains, bass) == [id |-> "front", mains |-> mains, bass |-> bass]

Base ==
  [layout   |-> <<"L", "R">>, paths |-> <<Main, Bass>>, groups |-> <<Group(<<"main">>, {"bass"})>>,
   matrix   |-> <<[target |-> "R", mode |-> "Add", terms |-> <<Of("bass", 0)>>],
                  [target |-> "L", mode |-> "Replace", terms |-> <<Of("main", 0), Of("bass", 6)>>]>>,
   headroom |-> [mode |-> "Auto", trim |-> 0]]

Crossed == [Base EXCEPT !.matrix = <<[target |-> "L", mode |-> "Add", terms |-> <<Of("main", 0)>>],
                                     [target |-> "R", mode |-> "Add", terms |-> <<Of("main", 6)>>]>>]
OnlyRight == [Base EXCEPT !.matrix = <<[target |-> "R", mode |-> "Replace", terms |-> <<Of("bass", 0)>>]>>,
                          !.headroom = [mode |-> "Manual", trim |-> -6]]

Unresolved == [Base EXCEPT !.matrix[1].terms[1].path = "gone"]

MCStates ==
  {Base, Crossed, OnlyRight, Unresolved,
   [OnlyRight EXCEPT !.paths[2].chain[3] = Delay(2)],                  \* a delay the device takes
   [OnlyRight EXCEPT !.paths[2].chain[3] = Delay(3)],                  \* and one too long
   [OnlyRight EXCEPT !.paths[2].chain[2].filter.hz = 4],               \* at Nyquist on one device
   [OnlyRight EXCEPT !.matrix[1].terms[1].gain = 9000],                \* finite in decibels only
   [Crossed   EXCEPT !.paths[1].post = 9000],
   \* What the factory refuses.
   [Base EXCEPT !.layout = <<"L", "L">>], [Base EXCEPT !.layout = <<"L">>],
   [Base EXCEPT !.paths[2].id = "main"], [Base EXCEPT !.paths[1].mix = <<>>],
   [Base EXCEPT !.paths[1].mix[1].channel = "S"], [Base EXCEPT !.paths[1].pre = NotFinite],
   [Base EXCEPT !.paths[1].chain = <<Polarity(FALSE), Slots(<<>>)>>],
   [Base EXCEPT !.paths[1].chain[2] = Delay(-1)], [Base EXCEPT !.paths[2].chain[2].filter.q = 0],
   [Base EXCEPT !.paths[2].chain[5].filters[1].q = 101],
   [Base EXCEPT !.groups[1] = Group(<<>>, {})], [Base EXCEPT !.groups[1] = Group(<<"bass">>, {})],
   [Base EXCEPT !.groups[1] = Group(<<"main">>, {"gone"})],
   [Base EXCEPT !.matrix = <<>>], [Base EXCEPT !.matrix[1].target = "L"],
   [Base EXCEPT !.matrix[1].target = "S"], [Base EXCEPT !.matrix[1].terms = <<>>],
   [Base EXCEPT !.headroom = [mode |-> "Manual", trim |-> 6]]}

=============================================================================
