CONSTANTS
    p1 = p1
    p2 = p2
    p3 = p3
    l1 = l1
    l2 = l2
    l3 = l3
    Pessoas = {p1, p2, p3}
    Liderancas = {l1, l2, l3}
    v1 = v1
    v2 = v2
    Vinculos = {v1, v2}
    Requisicoes = {r1}
    Valores = {c1}
    Titulos = {t1}
    MaxOperacoes = 3
    Nada = Nada
SPECIFICATION SpecCiclo
\* the operations of the instance are used up
CHECK_DEADLOCK FALSE
SYMMETRY Simetria
INVARIANT HierarquiaSemCiclo
