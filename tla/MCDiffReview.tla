---------------------------- MODULE MCDiffReview ----------------------------
EXTENDS DiffReview

Urgent(p, c, m, g) == [priority |-> p, confidence |-> c, missing |-> m, gap |-> g]

Operation(u, k, g) ==
  [urgency |-> u, inline |-> TRUE, exact |-> FALSE, extent |-> 1,
   key |-> k, group |-> g]

\* Three operations, two of one family and one of a repetition; a declaration.
Profiles ==
  [read  |-> Operation(Urgent(0, 1, 3, 1), "ptr", "none"),
   cast  |-> Operation(Urgent(1, 0, 2, 0), "ptr", "none"),
   simd  |-> Operation(Urgent(0, 0, 1, 4), "feature", "g"),
   decl  |-> [urgency |-> Urgent(0, 0, 2, 0), inline |-> FALSE, exact |-> TRUE,
              extent |-> 2, key |-> "decl", group |-> "none"]]

Seams == DOMAIN Profiles
Lines == Seams \cup {"code"}

\* The order of the files is not that of discovery.
Order == <<2, 3, 1>>

\* src/a/b.rs, src/c.rs and src/a_b.rs.
SlugOf == <<"src-a-b-rs", "src-c-rs", "src-a-b-rs">>

\* src/a/b.rs, src/c.rs and src/d.rs.
OwnSlugs == <<"src-a-b-rs", "src-c-rs", "src-d-rs">>

Caps == {2, 3, NoCap}

Small ==
  {<<<<"decl", "code", "read">>, <<"simd", "simd">>, <<"read">>>>,
   <<<<"code", "cast", "simd", "read">>, <<"read", "cast", "simd">>, <<"code">>>>}
=============================================================================
