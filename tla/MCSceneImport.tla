---------------------------- MODULE MCSceneImport ----------------------------
(* Small instances of SceneImport. *)
EXTENDS SceneImport

CONSTANTS p1, p2, cam, i1, i2

MCImages(kinds) == {[uri |-> k, content |-> <<"image", kinds[k]>>, kind |-> "image"]
                       : k \in DOMAIN kinds}

\* The same image at two times; two images of one moment; files that are
\* rejected before and for the unknown time; nothing.
MCImports ==
    {[files |-> MCImages(<<i1>>), time |-> 1], [files |-> MCImages(<<i1, i2>>), time |-> 2],
     [files |-> MCImages(<<i2>>) \cup {[uri |-> 0, content |-> None, kind |-> "corrupt"]},
      time |-> 0],
     [files |-> {}, time |-> 1]}

MCTums == {<<1>>, <<2, 1>>}

MCValidity == {[from |-> 0, to |-> 2], [from |-> 1, to |-> None], [from |-> 2, to |-> 3]}

=============================================================================
