------------------------- MODULE MCOutcomeFeedback --------------------------
\* Two callbacks about one episode or two, and one of every kind of body: good
\* and bad predictions, a partial outcome, no ids, bad ids, no number.
EXTENDS OutcomeFeedback

MCBody(episode, outcome, predicted, classified) ==
    [episode |-> episode, outcome |-> outcome, predicted |-> predicted,
     numeric |-> TRUE, wellFormed |-> TRUE, classified |-> classified]

MCBodies ==
    {MCBody("e1", "SUCCESS", 70, TRUE),
     MCBody("e1", "FAILURE", 70, TRUE),
     MCBody("e1", "PARTIAL", 30, FALSE),
     MCBody("e2", "SUCCESS", 130, TRUE),
     MCBody(NoEpisode, "SUCCESS", 90, TRUE),
     [MCBody("e1", "SUCCESS", 90, TRUE) EXCEPT !.wellFormed = FALSE],
     [MCBody("e1", "SUCCESS", 90, TRUE) EXCEPT !.numeric = FALSE]}
=============================================================================
