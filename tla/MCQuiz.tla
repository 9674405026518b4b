------------------------------- MODULE MCQuiz -------------------------------
EXTENDS Quiz

=============================================================================
