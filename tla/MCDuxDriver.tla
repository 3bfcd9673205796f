------------------------------ MODULE MCDuxDriver ------------------------------
EXTENDS DuxDriver

MCAskedUrbs == {0, 1, 3, 9}
===============================================================================
