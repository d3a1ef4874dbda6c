---- MODULE MCDemoStrategy ----
\* A small instance of DemoStrategy for TLC: short days, signal bars of two minutes.
EXTENDS DemoStrategy

MCEntryMinutes == 2..10
MCFlatMinutes == {12}
MCSlots == {1, 2, 3}
====
