---------------------------- MODULE MCCardDriver ----------------------------
(* CardDriver, with the environments of the run. *)
EXTENDS CardDriver

Both == {{}, Happenings}
HbAll == {{}, {"signal"}, HbHappenings}

\* Troubles one by one, and those together that matter together.
DtOneByOne ==
    {{}} \cup {{h} : h \in DtHappenings}
    \cup {{"fail", "hotplug"}, {"held", "hotplug"}, {"eager", "hotplug"}, {"nocard", "hotplug"},
          {"again", "hotplug"}, {"fail", "interrupts"}}
=============================================================================
