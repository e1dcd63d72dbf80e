---------------------------- MODULE MCPhotoCloud ----------------------------
EXTENDS PhotoCloud

\* One camera model on each side of every threshold of the quality gate.
MCModels ==
    { [registered |-> 3, inputs |-> 4, points |-> 1, error |-> 2],
      [registered |-> 3, inputs |-> 7, points |-> 1, error |-> -1],
      [registered |-> 2, inputs |-> 3, points |-> 1, error |-> 9],
      [registered |-> 3, inputs |-> 3, points |-> 0, error |-> -1] }

\* Binary chunks with and without padding, images of odd sizes, a broken length.
MCCandidates ==
    { [chunk |-> 4, length |-> 3, images |-> <<1, 6>>],
      [chunk |-> 8, length |-> 8, images |-> <<5>>],
      [chunk |-> 4, length |-> 4, images |-> <<>>],
      [chunk |-> 8, length |-> 2, images |-> <<4>>] }

\* COLMAP-CL is there and OpenMVS is not.
MCInstallations == { [openmvs |-> "absent", colmap |-> "whole"] }
=============================================================================
