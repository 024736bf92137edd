CONSTANTS
    p1 = p1
    p2 = p2
    p3 = p3
    l1 = l1
    l2 = l2
    l3 = l3
    Pessoas = {p1, p2, p3}
    Liderancas = {l1, l2, l3}
    v1 = v1
    v2 = v2
    Vinculos = {v1, v2, v3}
    Requisicoes = {r1, r2}
    Valores = {c1}
    Titulos = {t1}
    MaxOperacoes = 2
    Nada = Nada
    Planejamentos = {j1}
    Ordens = {1, 2}
    Posicoes = {1, 2}
    Materiais = {m1}
    Inicial = {1}
    AInstalar = {2}
    ARetirar = {0, 1}
    Chaves = {1, 2, 3}
    MaxEdicoes = 1
    RequisicoesCampo = {q1, q2}
    NadaCampo = NadaCampo
SPECIFICATION SpecDois
\* the operations, the keys and the editions of the instance may be used up
CHECK_DEADLOCK FALSE
SYMMETRY SimetriaDois
INVARIANTS PontoConfere PlanejamentoConfere
PROPERTIES InsercaoNaoFechaCiclo MescladaUmaVez MesclaLevaTudo ExecucaoConfere
