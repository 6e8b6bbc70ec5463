---------------------------- MODULE MC_ConfigLanguage ----------------------------
EXTENDS ConfigLanguage

Preamp == [kind |-> "preamp"]
Delay == [kind |-> "delay"]
Select(words) == [kind |-> "select", words |-> words]
To(target, sources) == [target |-> target, sources |-> sources]
Copy(assignments) == [kind |-> "copy", assignments |-> assignments]

MCChannels == <<"L", "R">>

\* A swap of two channels, and a new channel.
MCFilters ==
  {Preamp, Delay, Select({"L"}), Select({"R"}), Select({}), Select({"L", "R"}), Select({"N"}),
   Copy(<<To("R", <<"L">>), To("L", <<"R">>)>>), Copy(<<To("N", <<"L", "R">>)>>)}

\* Branches with hardly a filter, and filters without branches.
MCTexts ==
  {[commands |-> {"If", "ElseIf", "EndIf", "Device", "Stage"},
    filters |-> {Select({"L"})}, max |-> 1],
   [commands |-> {}, filters |-> MCFilters, max |-> MaxFilters]}

=============================================================================
